---- MODULE Spec2Model ----
(***************************************************************************)
(* A model of the ray tracer's kernel: tuples, matrices, rays, shapes,     *)
(* intersections, materials, the world, the camera and the canvas.         *)
(*                                                                         *)
(* Scalars (f64 in the source) are fixed-point numbers: the integer n      *)
(* stands for n / One.  Every arithmetic operator rounds its result to the *)
(* nearest representable number, as the floating-point unit does, only on  *)
(* a much coarser grid.  The three IEEE-754 values that are no numbers     *)
(* (NaN, +infinity, -infinity) are values of their own, with the IEEE      *)
(* rules for arithmetic and comparison.  Signed zeros are not told apart.  *)
(***************************************************************************)
EXTENDS Integers, Sequences, FiniteSets, Bags, TLC

\* ------------------------------------------------------------------ scalars

\* The fixed-point unit: the scalar 1.0.
One == 1000

\* f64::NAN, f64::INFINITY, f64::NEG_INFINITY: values outside the range of
\* every finite scalar of the model, ordered NegInf < finite < PosInf.
NaN == 2000000001
PosInf == 2000000000
NegInf == -2000000000

IsNaN(a) == a = NaN
IsInf(a) == a = PosInf \/ a = NegInf
IsFinite(a) == ~IsNaN(a) /\ ~IsInf(a)

\* The scalar of the integer n, and of the decimal fraction n / 10 and n / 2.
S(n) == n * One
Tenths(n) == (n * One) \div 10
Halves(n) == (n * One) \div 2

AbsInt(n) == IF n < 0 THEN 0 - n ELSE n
SignInt(n) == IF n < 0 THEN 0 - 1 ELSE IF n > 0 THEN 1 ELSE 0

\* n / d rounded to the nearest integer, halves away from zero (d # 0).
RoundDiv(n, d) ==
    LET q == (AbsInt(n) + (AbsInt(d) \div 2)) \div AbsInt(d)
    IN  IF SignInt(n) * SignInt(d) < 0 THEN 0 - q ELSE q

\* The sign of a scalar that is not NaN; zero counts as positive, as +0.0 does.
SignPos(a) == IF a < 0 THEN 0 - 1 ELSE 1
InfOfSign(s) == IF s < 0 THEN NegInf ELSE PosInf

\* f64 negation, addition, subtraction, multiplication, division.
Neg(a) ==
    IF IsNaN(a) THEN NaN
    ELSE IF a = PosInf THEN NegInf
    ELSE IF a = NegInf THEN PosInf
    ELSE 0 - a

Add(a, b) ==
    IF IsNaN(a) \/ IsNaN(b) THEN NaN
    ELSE IF IsInf(a) THEN (IF IsInf(b) /\ b # a THEN NaN ELSE a)
    ELSE IF IsInf(b) THEN b
    ELSE a + b

Sub(a, b) == Add(a, Neg(b))

Mul(a, b) ==
    IF IsNaN(a) \/ IsNaN(b) THEN NaN
    ELSE IF IsInf(a) \/ IsInf(b)
         THEN (IF a = 0 \/ b = 0 THEN NaN ELSE InfOfSign(SignPos(a) * SignPos(b)))
    ELSE RoundDiv(a * b, One)

Div(a, b) ==
    IF IsNaN(a) \/ IsNaN(b) THEN NaN
    ELSE IF IsInf(a) THEN (IF IsInf(b) THEN NaN ELSE InfOfSign(SignPos(a) * SignPos(b)))
    ELSE IF IsInf(b) THEN 0
    ELSE IF b = 0 THEN (IF a = 0 THEN NaN ELSE InfOfSign(SignPos(a)))
    ELSE RoundDiv(a * One, b)

\* f64 comparison: every comparison with NaN is false.
Lt(a, b) == ~IsNaN(a) /\ ~IsNaN(b) /\ a < b
Gt(a, b) == Lt(b, a)
Ge(a, b) == ~IsNaN(a) /\ ~IsNaN(b) /\ a >= b
Le(a, b) == Ge(b, a)

\* f64::abs
Abs(a) == IF IsNaN(a) THEN NaN ELSE IF IsInf(a) THEN PosInf ELSE AbsInt(a)

\* The largest r in lo..hi with r * r <= n, by bisection.
RECURSIVE ISqrtIn(_, _, _)
ISqrtIn(n, lo, hi) ==
    IF lo >= hi THEN lo
    ELSE LET mid == (lo + hi + 1) \div 2
         IN  IF mid * mid <= n THEN ISqrtIn(n, mid, hi) ELSE ISqrtIn(n, lo, mid - 1)

\* The integer nearest to the square root of n >= 0.
ISqrt(n) ==
    LET r == ISqrtIn(n, 0, 46339)
    IN  IF n - r * r > r THEN r + 1 ELSE r

\* f64::sqrt: NaN for a negative number and for NaN.
Sqrt(a) ==
    IF IsNaN(a) \/ a = NegInf THEN NaN
    ELSE IF a = PosInf THEN PosInf
    ELSE IF a < 0 THEN NaN
    ELSE ISqrt(a * One)

\* f64::floor
Floor(a) == IF IsFinite(a) THEN (a \div One) * One ELSE a

\* f64::powf for an exponent that is a whole number >= 0 (n is the integer).
RECURSIVE PowInt(_, _)
PowInt(a, n) ==
    IF n = 0 THEN One
    ELSE IF n % 2 = 0 THEN LET h == PowInt(a, n \div 2) IN Mul(h, h)
    ELSE Mul(a, PowInt(a, n - 1))

Powf(a, e) == PowInt(a, e \div One)

\* ------------------------------------------------------------------- tuples

Tuple(x, y, z, w) == [x |-> x, y |-> y, z |-> z, w |-> w]
point(x, y, z) == Tuple(x, y, z, One)
vector(x, y, z) == Tuple(x, y, z, 0)
color(x, y, z) == Tuple(x, y, z, 0)
BLACK == color(0, 0, 0)

TAdd(a, b) == Tuple(Add(a.x, b.x), Add(a.y, b.y), Add(a.z, b.z), Add(a.w, b.w))
\* A faulty variant of Sub for Tuple, for the sensitivity of C24: the w of the
\* left operand is kept.
t_sub_keeping_w(a, b) == Tuple(Sub(a.x, b.x), Sub(a.y, b.y), Sub(a.z, b.z), a.w)

TSub(a, b) == Tuple(Sub(a.x, b.x), Sub(a.y, b.y), Sub(a.z, b.z), Sub(a.w, b.w))
TNeg(a) == Tuple(Neg(a.x), Neg(a.y), Neg(a.z), Neg(a.w))
TScale(a, f) == Tuple(Mul(a.x, f), Mul(a.y, f), Mul(a.z, f), Mul(a.w, f))
TMul(a, b) == Tuple(Mul(a.x, b.x), Mul(a.y, b.y), Mul(a.z, b.z), Mul(a.w, b.w))

magnitude(a) ==
    Sqrt(Add(Add(Add(Mul(a.x, a.x), Mul(a.y, a.y)), Mul(a.z, a.z)), Mul(a.w, a.w)))

normalize(a) ==
    LET divided(m) == Tuple(Div(a.x, m), Div(a.y, m), Div(a.z, m), Div(a.w, m))
    IN  divided(magnitude(a))

dot(a, b) ==
    Add(Add(Add(Mul(a.x, b.x), Mul(a.y, b.y)), Mul(a.z, b.z)), Mul(a.w, b.w))

reflect(a, normal) == TSub(a, TScale(TScale(normal, S(2)), dot(a, normal)))

\* Sum for Tuple: the fold of += over a sequence of tuples, from (0, 0, 0, 0).
RECURSIVE TSum(_)
TSum(ts) ==
    IF ts = <<>> THEN Tuple(0, 0, 0, 0)
    ELSE TAdd(TSum(SubSeq(ts, 1, Len(ts) - 1)), ts[Len(ts)])

\* ----------------------------------------------------------------- matrices

\* A 4x4 matrix is a function of the row and the column index, both in 0..3.
IDENTITY == [i \in 0..3 |-> [j \in 0..3 |-> IF i = j THEN One ELSE 0]]

transpose(m) == [i \in 0..3 |-> [j \in 0..3 |-> m[j][i]]]

\* Matrix4::sub_matrix, Matrix3::sub_matrix: row l and column k removed.
sub_matrix4(m, l, k) ==
    [i \in 0..2 |-> [j \in 0..2 |->
        m[IF i < l THEN i ELSE i + 1][IF j < k THEN j ELSE j + 1]]]

sub_matrix3(m, l, k) ==
    [i \in 0..1 |-> [j \in 0..1 |->
        m[IF i < l THEN i ELSE i + 1][IF j < k THEN j ELSE j + 1]]]

determinant2(m) == Sub(Mul(m[0][0], m[1][1]), Mul(m[0][1], m[1][0]))

minor3(m, l, k) == determinant2(sub_matrix3(m, l, k))

cofactor3(m, l, k) ==
    Mul(IF (l + k) % 2 = 0 THEN One ELSE 0 - One, minor3(m, l, k))

determinant3(m) ==
    Add(Add(Mul(m[0][0], cofactor3(m, 0, 0)), Mul(m[0][1], cofactor3(m, 0, 1))),
        Mul(m[0][2], cofactor3(m, 0, 2)))

minor(m, l, k) == determinant3(sub_matrix4(m, l, k))

cofactor(m, l, k) ==
    Mul(IF (l + k) % 2 = 0 THEN One ELSE 0 - One, minor(m, l, k))

determinant(m) ==
    Add(Add(Add(Mul(m[0][0], cofactor(m, 0, 0)), Mul(m[0][1], cofactor(m, 0, 1))),
            Mul(m[0][2], cofactor(m, 0, 2))),
        Mul(m[0][3], cofactor(m, 0, 3)))

is_invertible(m) == determinant(m) # 0

\* A faulty variant of Matrix4::inverse, for the sensitivity of C23: the
\* matrix of the cofactors is not transposed.
inverse_untransposed(m) ==
    LET det == determinant(m)
    IN  [i \in 0..3 |-> [j \in 0..3 |-> Div(cofactor(m, i, j), det)]]

\* Matrix4::inverse: no guard, a singular matrix divides by zero.
inverse(m) ==
    LET det == determinant(m)
    IN  [i \in 0..3 |-> [j \in 0..3 |-> Div(cofactor(m, j, i), det)]]

\* A faulty variant of the product of two matrices, for the sensitivity of
\* C22: the factors change places.
mat_mul_swapped(a, b) ==
    [i \in 0..3 |-> [j \in 0..3 |->
        Add(Add(Add(Mul(b[i][0], a[0][j]), Mul(b[i][1], a[1][j])),
                Mul(b[i][2], a[2][j])),
            Mul(b[i][3], a[3][j]))]]

\* Mul<Matrix4> for Matrix4
MatMul(a, b) ==
    [i \in 0..3 |-> [j \in 0..3 |->
        Add(Add(Add(Mul(a[i][0], b[0][j]), Mul(a[i][1], b[1][j])),
                Mul(a[i][2], b[2][j])),
            Mul(a[i][3], b[3][j]))]]

MatRow(m, i, t) ==
    Add(Add(Add(Mul(m[i][0], t.x), Mul(m[i][1], t.y)), Mul(m[i][2], t.z)),
        Mul(m[i][3], t.w))

MatTuple(m, t) == Tuple(MatRow(m, 0, t), MatRow(m, 1, t), MatRow(m, 2, t), MatRow(m, 3, t))

translation(x, y, z) ==
    [i \in 0..3 |-> [j \in 0..3 |->
        IF i = j THEN One
        ELSE IF j = 3 THEN (IF i = 0 THEN x ELSE IF i = 1 THEN y ELSE z)
        ELSE 0]]

scaling(x, y, z) ==
    [i \in 0..3 |-> [j \in 0..3 |->
        IF i # j THEN 0
        ELSE IF i = 0 THEN x ELSE IF i = 1 THEN y ELSE IF i = 2 THEN z ELSE One]]

\* --------------------------------------------------------------------- rays

Ray(origin, direction) == [origin |-> origin, direction |-> direction]

position(ray, t) == TAdd(ray.origin, TScale(ray.direction, t))

\* Ray::transform that makes the direction a unit vector again.
ray_transform_normalizing(ray, m) ==
    Ray(MatTuple(m, ray.origin), normalize(MatTuple(m, ray.direction)))

RayTransform(ray, m) == Ray(MatTuple(m, ray.origin), MatTuple(m, ray.direction))

\* ----------------------------------------------------- patterns, materials

\* Pattern::new: the transform and its cached inverse start as the identity.
Pattern(kind, a, b) ==
    [transform |-> IDENTITY, invered_transform |-> IDENTITY,
     pattern_type |-> [kind |-> kind, a |-> a, b |-> b]]

solid(a) == Pattern("Solid", a, a)
stripe(a, b) == Pattern("Stripe", a, b)
ring(a, b) == Pattern("Ring", a, b)

\* Pattern::set_transform: the inverse is computed once and cached.
pattern_set_transform(pattern, transform) ==
    [pattern EXCEPT !.transform = transform, !.invered_transform = inverse(transform)]

\* The float remainder x % 2.0: it has the sign of x, and is NaN for NaN and
\* the infinities.
Rem2(a) ==
    IF ~IsFinite(a) THEN NaN
    ELSE SignInt(a) * (AbsInt(a) % (2 * One))

\* A faulty variant of PatternType::pattern_at, for the sensitivity of C19:
\* the x of a stripe is cut toward zero in place of floor.
pattern_at_truncating(pt, p) ==
    IF pt.kind = "Solid" THEN pt.a
    ELSE IF pt.kind = "Stripe"
    THEN IF Rem2(SignInt(p.x) * Floor(AbsInt(p.x))) = 0 THEN pt.a ELSE pt.b
    ELSE IF Rem2(Sqrt(Add(Mul(p.x, p.x), Mul(p.z, p.z)))) = 0 THEN pt.a ELSE pt.b

\* PatternType::pattern_at of Solid, Stripe and Ring, for patterns made of
\* two colours (new_solid).
pattern_at(pt, p) ==
    IF pt.kind = "Solid" THEN pt.a
    ELSE IF pt.kind = "Stripe"
    THEN IF Rem2(Floor(p.x)) = 0 THEN pt.a ELSE pt.b
    ELSE IF Rem2(Sqrt(Add(Mul(p.x, p.x), Mul(p.z, p.z)))) = 0 THEN pt.a ELSE pt.b

\* Material::new
Material ==
    [pattern |-> solid(color(One, One, One)),
     ambient |-> Tenths(1), diffuse |-> Tenths(9), specular |-> Tenths(9),
     shininess |-> S(200)]

\* ------------------------------------------------------------------- shapes

\* f64::EPSILON, the machine epsilon: below the resolution of the model, it
\* is the smallest positive scalar.
F64_EPSILON == 1

\* A faulty variant of Sphere::local_intersect, for the sensitivity of C11:
\* the root with the added square root comes first.
sphere_intersect_far_first(ray) ==
    LET sphere_to_ray == TSub(ray.origin, point(0, 0, 0))
        a == dot(ray.direction, ray.direction)
        b == Mul(S(2), dot(ray.direction, sphere_to_ray))
        c == Sub(dot(sphere_to_ray, sphere_to_ray), One)
        roots(discriminant) ==
            IF Lt(discriminant, 0) THEN <<>>
            ELSE <<Div(Add(Neg(b), Sqrt(discriminant)), Mul(S(2), a)),
                   Div(Sub(Neg(b), Sqrt(discriminant)), Mul(S(2), a))>>
    IN  roots(Sub(Mul(b, b), Mul(Mul(S(4), a), c)))

\* Sphere::local_intersect: the roots of the quadratic, none when the
\* discriminant is negative.
SphereLocalIntersect(ray) ==
    LET sphere_to_ray == TSub(ray.origin, point(0, 0, 0))
        a == dot(ray.direction, ray.direction)
        b == Mul(S(2), dot(ray.direction, sphere_to_ray))
        c == Sub(dot(sphere_to_ray, sphere_to_ray), One)
        roots(discriminant) ==
            IF Lt(discriminant, 0) THEN <<>>
            ELSE <<Div(Sub(Neg(b), Sqrt(discriminant)), Mul(S(2), a)),
                   Div(Add(Neg(b), Sqrt(discriminant)), Mul(S(2), a))>>
    IN  roots(Sub(Mul(b, b), Mul(Mul(S(4), a), c)))

\* A faulty variant of Plane::local_intersect, for the sensitivity of C12:
\* the height of the origin is not negated.
plane_intersect_unsigned(ray) ==
    IF Lt(Abs(ray.direction.y), F64_EPSILON) THEN <<>>
    ELSE <<Div(ray.origin.y, ray.direction.y)>>

\* Plane::local_intersect
PlaneLocalIntersect(ray) ==
    IF Lt(Abs(ray.direction.y), F64_EPSILON) THEN <<>>
    ELSE <<Div(Neg(ray.origin.y), ray.direction.y)>>

local_intersect(shape_type, ray) ==
    IF shape_type = "Sphere" THEN SphereLocalIntersect(ray)
    ELSE PlaneLocalIntersect(ray)

local_normal_at(shape_type, p) ==
    IF shape_type = "Sphere" THEN TSub(p, point(0, 0, 0))
    ELSE vector(0, One, 0)

\* Shape::new
NewShape(shape_type) ==
    [shape_type |-> shape_type, transform |-> IDENTITY,
     inversed_transform |-> IDENTITY, material |-> Material]

\* Shape::set_transform that leaves the cached inverse as it was.
set_transform_keeping_inverse(shape, transform) ==
    [shape EXCEPT !.transform = transform]

\* Shape::set_transform: the inverse is computed once and cached.
set_transform(shape, transform) ==
    [shape EXCEPT !.transform = transform, !.inversed_transform = inverse(transform)]

Intersection(t, object) == [t |-> t, object |-> object]

\* A faulty variant of Shape::intersect, for the sensitivity of C10: the ray
\* is not taken to the space of the shape.
intersect_untransformed(self, shape, ray) ==
    LET of_self(ts) == [k \in 1..Len(ts) |-> Intersection(ts[k], self)]
    IN  of_self(local_intersect(shape.shape_type, ray))

\* Shape::intersect.  self is the reference to the shape (its place in the
\* list that owns it), shape the value it refers to.
ShapeIntersect(self, shape, ray) ==
    LET local_ray == RayTransform(ray, shape.inversed_transform)
        of_self(ts) == [k \in 1..Len(ts) |-> Intersection(ts[k], self)]
    IN  of_self(local_intersect(shape.shape_type, local_ray))

\* A faulty variant of Shape::normal_at, for the sensitivity of C17: the w
\* that the transposed inverse of a translation gives the normal is kept.
normal_at_keeping_w(shape, world_point) ==
    LET object_point == MatTuple(shape.inversed_transform, world_point)
        object_normal == local_normal_at(shape.shape_type, object_point)
    IN  normalize(MatTuple(transpose(shape.inversed_transform), object_normal))

\* Shape::normal_at
normal_at(shape, world_point) ==
    LET object_point == MatTuple(shape.inversed_transform, world_point)
        object_normal == local_normal_at(shape.shape_type, object_point)
        world_normal == MatTuple(transpose(shape.inversed_transform), object_normal)
    IN  normalize([world_normal EXCEPT !.w = 0])

\* A faulty variant of Pattern::pattern_at_shape, for the sensitivity of
\* C18: the inverse of the pattern is applied before that of the shape.
pattern_at_shape_pattern_first(pattern, object, world_point) ==
    LET pattern_point == MatTuple(pattern.invered_transform, world_point)
        object_point == MatTuple(object.inversed_transform, pattern_point)
    IN  pattern_at(pattern.pattern_type, object_point)

\* Pattern::pattern_at_shape
pattern_at_shape(pattern, object, world_point) ==
    LET object_point == MatTuple(object.inversed_transform, world_point)
        pattern_point == MatTuple(pattern.invered_transform, object_point)
    IN  pattern_at(pattern.pattern_type, pattern_point)

PointLight(p, intensity) == [position |-> p, intensity |-> intensity]

\* A faulty variant of Material::lighting, for the sensitivity of C15: the
\* shadow flag is not looked at.
lighting_ignoring_shadow(material, object, light, p, eyev, normalv, in_shadow) ==
    LET col == pattern_at_shape(material.pattern, object, p)
        sum(effective_color, lightv) ==
            LET ambient == TScale(effective_color, material.ambient)
                light_dot_normal == dot(lightv, normalv)
                reflectv == reflect(TNeg(lightv), normalv)
                lit == ~Lt(light_dot_normal, 0)
                diffuse ==
                    IF lit
                    THEN TScale(TScale(effective_color, material.diffuse), light_dot_normal)
                    ELSE BLACK
                specular(reflect_dot_eye) ==
                    IF lit /\ ~Lt(reflect_dot_eye, 0)
                    THEN TScale(TScale(light.intensity, material.specular),
                                Powf(reflect_dot_eye, material.shininess))
                    ELSE BLACK
            IN  TAdd(TAdd(ambient, diffuse), specular(dot(reflectv, eyev)))
    IN  sum(TMul(col, light.intensity), normalize(TSub(light.position, p)))

\* A faulty variant of Material::lighting, for the sensitivity of C16: every
\* channel of the sum is cut off at 1.
lighting_clamped(material, object, light, p, eyev, normalv, in_shadow) ==
    LET col == pattern_at_shape(material.pattern, object, p)
        clamped(c) ==
            color(IF Gt(c.x, One) THEN One ELSE c.x, IF Gt(c.y, One) THEN One ELSE c.y,
                  IF Gt(c.z, One) THEN One ELSE c.z)
        sum(effective_color, lightv) ==
            LET ambient == TScale(effective_color, material.ambient)
                light_dot_normal == dot(lightv, normalv)
                reflectv == reflect(TNeg(lightv), normalv)
                lit == ~(in_shadow \/ Lt(light_dot_normal, 0))
                diffuse ==
                    IF lit
                    THEN TScale(TScale(effective_color, material.diffuse), light_dot_normal)
                    ELSE BLACK
                specular(reflect_dot_eye) ==
                    IF lit /\ ~Lt(reflect_dot_eye, 0)
                    THEN TScale(TScale(light.intensity, material.specular),
                                Powf(reflect_dot_eye, material.shininess))
                    ELSE BLACK
            IN  clamped(TAdd(TAdd(ambient, diffuse), specular(dot(reflectv, eyev))))
    IN  sum(TMul(col, light.intensity), normalize(TSub(light.position, p)))

\* Material::lighting
lighting(material, object, light, p, eyev, normalv, in_shadow) ==
    LET col == pattern_at_shape(material.pattern, object, p)
        sum(effective_color, lightv) ==
            LET ambient == TScale(effective_color, material.ambient)
                light_dot_normal == dot(lightv, normalv)
                reflectv == reflect(TNeg(lightv), normalv)
                lit == ~(in_shadow \/ Lt(light_dot_normal, 0))
                diffuse ==
                    IF lit
                    THEN TScale(TScale(effective_color, material.diffuse), light_dot_normal)
                    ELSE BLACK
                specular(reflect_dot_eye) ==
                    IF lit /\ ~Lt(reflect_dot_eye, 0)
                    THEN TScale(TScale(light.intensity, material.specular),
                                Powf(reflect_dot_eye, material.shininess))
                    ELSE BLACK
            IN  TAdd(TAdd(ambient, diffuse), specular(dot(reflectv, eyev)))
    IN  sum(TMul(col, light.intensity), normalize(TSub(light.position, p)))

\* ------------------------------------------------------------ intersections

\* An Option is the empty sequence (None) or a sequence of one value (Some).
None == <<>>
Some(v) == <<v>>

\* A call either returns a value or panics (and then returns nothing).
Returned(v) == [panic |-> FALSE, val |-> v]
Panicked == [panic |-> TRUE, val |-> <<>>]

\* PartialOrd for Intersection: the order of the t values, None when one of
\* them is NaN.
partial_cmp(a, b) ==
    IF IsNaN(a.t) \/ IsNaN(b.t) THEN "None"
    ELSE IF a.t < b.t THEN "Less"
    ELSE IF a.t = b.t THEN "Equal"
    ELSE "Greater"

\* A faulty variant of insert_tail, for the sensitivity of C8: x also moves
\* in front of the elements it compares equal to, so the sort is not stable.
RECURSIVE insert_tail_unstable(_, _)
insert_tail_unstable(s, x) ==
    IF s = <<>> THEN Returned(<<x>>)
    ELSE LET last == s[Len(s)]
             c == partial_cmp(x, last)
         IN  IF c = "None" THEN Panicked
             ELSE IF c \in {"Less", "Equal"}
                  THEN LET r == insert_tail_unstable(SubSeq(s, 1, Len(s) - 1), x)
                       IN  IF r.panic THEN Panicked ELSE Returned(Append(r.val, last))
             ELSE Returned(Append(s, x))

\* One step of the stable sort of a short slice: x is moved from the tail of
\* the sorted run s toward the front while it compares less than the element
\* before it.  The comparison unwraps partial_cmp, so a None panics.
RECURSIVE insert_tail(_, _)
insert_tail(s, x) ==
    IF s = <<>> THEN Returned(<<x>>)
    ELSE LET last == s[Len(s)]
             c == partial_cmp(x, last)
         IN  IF c = "None" THEN Panicked
             ELSE IF c = "Less"
                  THEN LET r == insert_tail(SubSeq(s, 1, Len(s) - 1), x)
                       IN  IF r.panic THEN Panicked ELSE Returned(Append(r.val, last))
             ELSE Returned(Append(s, x))

\* slice::sort_by with the comparator |a, b| a.partial_cmp(b).unwrap(): the
\* first n elements of list, sorted.
RECURSIVE sort_by(_, _)
sort_by(list, n) ==
    IF n = 0 THEN Returned(<<>>)
    ELSE LET r == sort_by(list, n - 1)
         IN  IF r.panic THEN Panicked ELSE insert_tail(r.val, list[n])

\* intersections()
intersections(list) == sort_by(list, Len(list))

\* The first index of xs from k on whose t is > 0, or 0.
RECURSIVE find_positive(_, _)
find_positive(xs, k) ==
    IF k > Len(xs) THEN 0
    ELSE IF Gt(xs[k].t, 0) THEN k
    ELSE find_positive(xs, k + 1)

\* A faulty variant of hit, for the sensitivity of C3: the first intersection
\* of the list, whatever the sign of its t.
hit_first(xs) == IF xs = <<>> THEN None ELSE Some(xs[1])

\* hit(): Some of the first intersection with t > 0, or None.
hit(xs) ==
    LET k == find_positive(xs, 1)
    IN  IF k = 0 THEN None ELSE Some(xs[k])

\* intersections::EPSILON (0.00001): below the resolution of the model, it is
\* the smallest positive scalar.
EPSILON == 1

\* A faulty variant of Computations::prepare, for the sensitivity of C13: a
\* hit from the inside is noticed, but the normal is left as it is.
prepare_unflipped(objects, intersection, ray) ==
    LET p == position(ray, intersection.t)
        eyev == TNeg(ray.direction)
        comps(normalv, inside) ==
            [t |-> intersection.t, object |-> intersection.object, point |-> p,
             eyev |-> eyev, normalv |-> normalv, inside |-> inside,
             over_point |-> TAdd(p, TScale(normalv, EPSILON))]
        oriented(normalv) == comps(normalv, Lt(dot(normalv, eyev), 0))
    IN  oriented(normal_at(objects[intersection.object], p))

\* A faulty variant of Computations::prepare, for the sensitivity of C14:
\* over_point is displaced along the normal of the shape, flipped or not.
prepare_over_outward(objects, intersection, ray) ==
    LET p == position(ray, intersection.t)
        eyev == TNeg(ray.direction)
        oriented(normalv) ==
            [t |-> intersection.t, object |-> intersection.object, point |-> p,
             eyev |-> eyev,
             normalv |-> IF Lt(dot(normalv, eyev), 0) THEN TNeg(normalv) ELSE normalv,
             inside |-> Lt(dot(normalv, eyev), 0),
             over_point |-> TAdd(p, TScale(normalv, EPSILON))]
    IN  oriented(normal_at(objects[intersection.object], p))

\* Computations::prepare.  objects is the list that owns the shapes the
\* intersections refer to.
prepare(objects, intersection, ray) ==
    LET p == position(ray, intersection.t)
        eyev == TNeg(ray.direction)
        comps(normalv, inside) ==
            [t |-> intersection.t, object |-> intersection.object, point |-> p,
             eyev |-> eyev, normalv |-> normalv, inside |-> inside,
             over_point |-> TAdd(p, TScale(normalv, EPSILON))]
        oriented(normalv) ==
            IF Lt(dot(normalv, eyev), 0) THEN comps(TNeg(normalv), TRUE)
            ELSE comps(normalv, FALSE)
    IN  oriented(normal_at(objects[intersection.object], p))

\* -------------------------------------------------------------------- world

\* World::new, World::with_objects_and_light
NewWorld == [objects |-> <<>>, lights |-> <<>>]
with_objects_and_light(objects, light) == [objects |-> objects, lights |-> <<light>>]

\* A faulty variant of the loop of World::intersect, for the sensitivity of
\* C9: the intersections of an object replace those of the objects before it.
extend_last(w, ray, n) ==
    IF n = 0 THEN <<>> ELSE ShapeIntersect(n, w.objects[n], ray)

\* The loop of World::intersect from the last object of the list to the
\* first.
RECURSIVE extend_all_reversed(_, _, _)
extend_all_reversed(w, ray, n) ==
    IF n = 0 THEN <<>>
    ELSE ShapeIntersect(n, w.objects[n], ray) \o extend_all_reversed(w, ray, n - 1)

\* The loop of World::intersect: the intersections of the first n objects with
\* the ray, each object's appended to those of the objects before it.
RECURSIVE extend_all(_, _, _)
extend_all(w, ray, n) ==
    IF n = 0 THEN <<>>
    ELSE extend_all(w, ray, n - 1) \o ShapeIntersect(n, w.objects[n], ray)

\* World::intersect
WorldIntersect(w, ray) == intersections(extend_all(w, ray, Len(w.objects)))

\* World::shade_hit: the lighting of every light, summed.
shade_hit(w, comps) ==
    TSum([l \in 1..Len(w.lights) |->
            lighting(w.objects[comps.object].material, w.objects[comps.object],
                     w.lights[l], comps.point, comps.eyev, comps.normalv, FALSE)])

\* World::color_at
color_at(w, ray) ==
    LET shaded(h) ==
            IF h = None THEN BLACK
            ELSE shade_hit(w, prepare(w.objects, h[1], ray))
        of_hit(xs) == IF xs.panic THEN Panicked ELSE Returned(shaded(hit(xs.val)))
    IN  of_hit(WorldIntersect(w, ray))

\* A faulty variant of World::is_shadowed, for the sensitivity of C4: any
\* positive hit shadows the point, however far it is.
is_shadowed_any(w, p, light) ==
    LET direction == normalize(TSub(light.position, p))
        of_hit(xs) == IF xs.panic THEN Panicked ELSE Returned(hit(xs.val) # None)
    IN  of_hit(WorldIntersect(w, Ray(p, direction)))

\* World::is_shadowed
is_shadowed(w, p, light) ==
    LET v == TSub(light.position, p)
        distance == magnitude(v)
        direction == normalize(v)
        nearer(h) == IF h = None THEN FALSE ELSE Lt(h[1].t, distance)
        of_hit(xs) == IF xs.panic THEN Panicked ELSE Returned(nearer(hit(xs.val)))
    IN  of_hit(WorldIntersect(w, Ray(p, direction)))

\* World::default: two concentric spheres and one light.
DefaultWorld ==
    LET light == PointLight(point(S(0 - 10), S(10), S(0 - 10)), color(One, One, One))
        m1 == [Material EXCEPT !.pattern = solid(color(Tenths(8), One, Tenths(6))),
                               !.diffuse = Tenths(7), !.specular = Tenths(2)]
        s1 == [NewShape("Sphere") EXCEPT !.material = m1]
        s2 == set_transform(NewShape("Sphere"), scaling(Halves(1), Halves(1), Halves(1)))
    IN  with_objects_and_light(<<s1, s2>>, light)

\* ------------------------------------------------------------------- canvas

\* Canvas::new: height rows of width black pixels.
NewCanvas(width, height) ==
    [width |-> width, height |-> height,
     pixels |-> [y \in 0..(height - 1) |-> [x \in 0..(width - 1) |-> color(0, 0, 0)]]]

\* Canvas::pixel_at
pixel_at(canvas, x, y) == canvas.pixels[y][x]

\* Two faulty variants of Canvas::write_pixel.  For the sensitivity of C5: the
\* row and the column are taken for each other.  For the sensitivity of C6:
\* the colour is also written to the next cell of the row, when there is one.
write_pixel_transposed(canvas, x, y, c) ==
    IF x \in DOMAIN canvas.pixels /\ y \in DOMAIN canvas.pixels[x]
    THEN Returned([canvas EXCEPT !.pixels[x][y] = c])
    ELSE Panicked

write_pixel_and_next(canvas, x, y, c) ==
    IF y \in DOMAIN canvas.pixels /\ x \in DOMAIN canvas.pixels[y]
    THEN Returned([canvas EXCEPT
            !.pixels[y] = [i \in DOMAIN @ |-> IF i \in {x, x + 1} THEN c ELSE @[i]]])
    ELSE Panicked

\* Canvas::write_pixel that leaves a cell that was written before as it is.
write_pixel_once(canvas, x, y, c) ==
    IF y \in DOMAIN canvas.pixels /\ x \in DOMAIN canvas.pixels[y]
    THEN Returned([canvas EXCEPT !.pixels[y][x] = IF @ = color(0, 0, 0) THEN c ELSE @])
    ELSE Panicked

\* Canvas::write_pixel: indexing a row or a pixel that is not there panics.
write_pixel(canvas, x, y, c) ==
    IF y \in DOMAIN canvas.pixels /\ x \in DOMAIN canvas.pixels[y]
    THEN Returned([canvas EXCEPT !.pixels[y][x] = c])
    ELSE Panicked

\* scalar_to_u8 with a cast that keeps the low eight bits of the rounded
\* value, as a cast between integer types does.
scalar_to_u8_wrapping(value) ==
    LET cast(rounded) ==
            IF ~IsFinite(rounded) THEN 0 ELSE (rounded \div One) % 256
        round(a) == IF IsFinite(a) THEN RoundDiv(a, One) * One ELSE a
    IN  cast(round(Mul(value, S(255))))

\* Canvas::scalar_to_u8: the scalar times 255, rounded to the nearest whole
\* number (halves away from zero), cast to u8.  The cast of a float saturates:
\* a number below 0 gives 0, one above 255 gives 255, and NaN gives 0.
scalar_to_u8(value) ==
    LET cast(rounded) ==
            IF IsNaN(rounded) \/ Lt(rounded, 0) THEN 0
            ELSE IF Gt(rounded, S(255)) THEN 255
            ELSE rounded \div One
        round(a) == IF IsFinite(a) THEN RoundDiv(a, One) * One ELSE a
    IN  cast(round(Mul(value, S(255))))

\* Canvas::to_rgb_vec: the three channels of every pixel, row by row.
to_rgb_vec(canvas) ==
    [k \in 1..(canvas.width * canvas.height * 3) |->
        LET pixel == canvas.pixels[(k - 1) \div (3 * canvas.width)]
                                  [((k - 1) % (3 * canvas.width)) \div 3]
        IN  scalar_to_u8(<<pixel.x, pixel.y, pixel.z>>[((k - 1) % 3) + 1])]

\* PpmFormatter::write without the test of the length of the line.
ppm_write_unwrapped(f, string) ==
    [f EXCEPT !.line = IF f.line = <<>> THEN string
                       ELSE f.line \o f.separator \o string]

\* PpmFormatter::write.  A string is a sequence of characters; f is the
\* formatter: its max_length, its separator, its output and its line.
ppm_write(f, string) ==
    LET appended(g) ==
            [g EXCEPT !.line = IF g.line = <<>> THEN string
                               ELSE g.line \o g.separator \o string]
    IN  appended(IF Len(f.line) + Len(f.separator) + Len(string) > f.max_length
                 THEN [f EXCEPT !.output = f.output \o f.line \o <<"\n">>, !.line = <<>>]
                 ELSE f)

\* Canvas::to_ppm, with PpmFormatter::new, new_line, flush and to_string, and
\* format!("{}", n) for a whole number n.  The formatter after each write and
\* after each row is a value, the one the next write starts from.
to_ppm(canvas) ==
    LET RECURSIVE decimal(_), row(_, _, _), rows(_, _)
        decimal(n) ==
            IF n < 10 THEN <<<<"0", "1", "2", "3", "4", "5", "6", "7", "8", "9">>[n + 1]>>
            ELSE decimal(n \div 10) \o decimal(n % 10)
        new_line(f) == [f EXCEPT !.output = f.output \o f.line \o <<"\n">>, !.line = <<>>]
        channel(pixel, c) == <<pixel.x, pixel.y, pixel.z>>[c]
        row(f, y, n) ==
            IF n = 0 THEN f
            ELSE CHOOSE after \in
                     {ppm_write(before,
                                decimal(scalar_to_u8(channel(canvas.pixels[y][(n - 1) \div 3],
                                                             ((n - 1) % 3) + 1))))
                         : before \in {row(f, y, n - 1)}} : TRUE
        rows(f, n) ==
            IF n = 0 THEN f
            ELSE CHOOSE after \in
                     {new_line(row(before, n - 1, 3 * canvas.width))
                         : before \in {rows(f, n - 1)}} : TRUE
        header(f) ==
            new_line(ppm_write(
                new_line(ppm_write(
                    new_line(ppm_write(f, <<"P", "3">>)),
                    decimal(canvas.width) \o <<" ">> \o decimal(canvas.height))),
                <<"2", "5", "5">>))
        flush(f) == IF f.line # <<>> THEN new_line(f) ELSE f
    IN  flush(rows(header([max_length |-> 69, separator |-> <<" ">>,
                           output |-> <<>>, line |-> <<>>]),
                   canvas.height)).output

\* ------------------------------------------------------------------- camera

\* The angles pi/2 and pi/6, and f64::tan at half of each (tan(pi/4) = 1,
\* tan(pi/12) = 0.268).
FRAC_PI_2 == 1571
FRAC_PI_6 == 524

Tan(a) ==
    IF a = Div(FRAC_PI_2, S(2)) THEN One
    ELSE IF a = Div(FRAC_PI_6, S(2)) THEN 268
    ELSE NaN

cross(a, b) ==
    vector(Sub(Mul(a.y, b.z), Mul(a.z, b.y)),
           Sub(Mul(a.z, b.x), Mul(a.x, b.z)),
           Sub(Mul(a.x, b.y), Mul(a.y, b.x)))

\* Transformation::view
view(from, to, up) ==
    LET forward == normalize(TSub(to, from))
        left == cross(forward, normalize(up))
        true_up == cross(left, forward)
        orientation ==
            [i \in 0..3 |-> [j \in 0..3 |->
                IF i = 3 \/ j = 3 THEN (IF i = j THEN One ELSE 0)
                ELSE LET row == IF i = 0 THEN left
                                ELSE IF i = 1 THEN true_up ELSE TNeg(forward)
                     IN  IF j = 0 THEN row.x ELSE IF j = 1 THEN row.y ELSE row.z]]
    IN  MatMul(orientation, translation(Neg(from.x), Neg(from.y), Neg(from.z)))

\* A faulty variant of Camera::new, for the sensitivity of C21: the canvas is
\* taken to be wider than high.
camera_new_landscape(hsize, vsize, field_of_view) ==
    LET half_view == Tan(Div(field_of_view, S(2)))
        aspect == Div(S(hsize), S(vsize))
    IN  [hsize |-> hsize, vsize |-> vsize, field_of_view |-> field_of_view,
         transform |-> IDENTITY, inversed_transform |-> IDENTITY,
         pixel_size |-> Div(Mul(half_view, S(2)), S(hsize)),
         half_width |-> half_view, half_height |-> Div(half_view, aspect)]

\* Camera::new
NewCamera(hsize, vsize, field_of_view) ==
    LET half_view == Tan(Div(field_of_view, S(2)))
        aspect == Div(S(hsize), S(vsize))
        half_width == IF Ge(aspect, One) THEN half_view ELSE Mul(half_view, aspect)
        half_height == IF Ge(aspect, One) THEN Div(half_view, aspect) ELSE half_view
    IN  [hsize |-> hsize, vsize |-> vsize, field_of_view |-> field_of_view,
         transform |-> IDENTITY, inversed_transform |-> IDENTITY,
         pixel_size |-> Div(Mul(half_width, S(2)), S(hsize)),
         half_width |-> half_width, half_height |-> half_height]

\* Camera::set_transform
camera_set_transform(cam, transform) ==
    [cam EXCEPT !.transform = transform, !.inversed_transform = inverse(transform)]

\* Camera::ray_for_pixel
ray_for_pixel(cam, px, py) ==
    LET xoffset == Mul(Add(S(px), Halves(1)), cam.pixel_size)
        yoffset == Mul(Add(S(py), Halves(1)), cam.pixel_size)
        world_x == Sub(cam.half_width, xoffset)
        world_y == Sub(cam.half_height, yoffset)
        pixel == MatTuple(cam.inversed_transform, point(world_x, world_y, 0 - One))
        origin == MatTuple(cam.inversed_transform, point(0, 0, 0))
        direction == normalize(TSub(pixel, origin))
    IN  Ray(origin, direction)

\* The body of the loops of Camera::render for the pixel (x, y): the image
\* after the pixel is written, or a panic.
render_pixel(cam, w, image, x, y) ==
    LET ray == ray_for_pixel(cam, x, y)
        written(c) == IF c.panic THEN Panicked ELSE write_pixel(image, x, y, c.val)
    IN  written(color_at(w, ray))

\* The loops of Camera::render after n turns, the rows from the top and each
\* row from the left: the image so far, or a panic.
RECURSIVE render_loop(_, _, _)
render_loop(cam, w, n) ==
    IF n = 0 THEN Returned(NewCanvas(cam.hsize, cam.vsize))
    ELSE LET turn(before) ==
                 IF before.panic THEN Panicked
                 ELSE render_pixel(cam, w, before.val,
                                   (n - 1) % cam.hsize, (n - 1) \div cam.hsize)
         IN  turn(render_loop(cam, w, n - 1))

\* Camera::render
render_image(cam, w) == render_loop(cam, w, cam.hsize * cam.vsize)

\* ------------------------------------------------------- the state machine

VARIABLES
    world,      \* the World: its objects and its lights
    shape,      \* a Shape of its own, outside any world
    camera,     \* the Camera
    canvas,     \* a Canvas of its own, which no camera renders to
    render,     \* the running call of Camera::render: its arguments as they
                \* were when it was called, its locals, the bag of the cells
                \* written so far and the cell written last
    call        \* the last call that ended: its arguments and its result

vars == <<world, shape, camera, canvas, render, call>>

\* The bounds of the model.
MaxObjects == 2
MaxLights == 2
MaxLen == 3
MaxSize == 2

\* The transforms the scene builder sets: a translation along z, a scaling
\* that flattens the shape (its determinant is 0), and a translation that
\* takes the unit sphere to where the rays along the z axis touch it, at the
\* point where they enter the sphere that was not moved.
Transforms ==
    {IDENTITY, translation(0, 0, S(4)), scaling(One, One, 0),
     translation(0, One, 0 - One)}

WHITE == color(One, One, One)
Lights == {PointLight(point(0, 0, S(0 - 4)), WHITE), PointLight(point(0, S(4), 0), WHITE)}

Directions == {vector(0, 0, One), vector(0, 0, 0 - One)}
Origins == {point(0, 0, S(0 - 3)), point(0, 0, S(2)), point(0, One, S(0 - 3)),
            point(0, S(2), S(0 - 3))}
Rays == {Ray(o, d) : o \in Origins, d \in Directions}

Points == {point(0, 0, S(3)), point(0, 0, S(0 - 2)), point(0, 0, S(0 - 6)),
           point(0, S(4), S(3))}

Idle == [op |-> "idle"]
NotRendering == [pc |-> "idle"]

\* A world under construction: nothing is being rendered or called.
Init ==
    /\ world = NewWorld
    /\ shape = NewShape("Sphere")
    /\ camera = NewCamera(1, 1, FRAC_PI_2)
    /\ canvas = NewCanvas(0, 0)
    /\ render = NotRendering
    /\ call = Idle

\* The scene builder adds a new sphere to the world.
AddSphere ==
    /\ call = Idle
    /\ Len(world.objects) < MaxObjects
    /\ world' = [world EXCEPT !.objects = Append(@, NewShape("Sphere"))]
    /\ UNCHANGED <<shape, camera, canvas, render, call>>

\* The scene builder sets the transform of an object.
SetTransform(i, m) ==
    /\ call = Idle
    /\ i \in 1..Len(world.objects)
    /\ world' = [world EXCEPT !.objects[i] = set_transform(@, m)]
    /\ UNCHANGED <<shape, camera, canvas, render, call>>

\* The scene builder adds a light.
AddLight(light) ==
    /\ call = Idle
    /\ Len(world.lights) < MaxLights
    /\ world' = [world EXCEPT !.lights = Append(@, light)]
    /\ UNCHANGED <<shape, camera, canvas, render, call>>

\* A call of World::intersect.
Intersect(ray) ==
    /\ call = Idle
    /\ \E res \in {WorldIntersect(world, ray)} :
           call' = [op |-> "intersect", ray |-> ray, res |-> res]
    /\ UNCHANGED <<world, shape, camera, canvas, render>>

\* A call of World::color_at.
ColorAt(ray) ==
    /\ call = Idle
    /\ \E res \in {color_at(world, ray)} :
           call' = [op |-> "color_at", ray |-> ray, res |-> res]
    /\ UNCHANGED <<world, shape, camera, canvas, render>>

\* A call of World::is_shadowed with one of the world's lights.
IsShadowed(p, l) ==
    /\ call = Idle
    /\ l \in 1..Len(world.lights)
    /\ \E res \in {is_shadowed(world, p, world.lights[l])} :
           call' = [op |-> "is_shadowed", point |-> p, light |-> world.lights[l],
                    res |-> res]
    /\ UNCHANGED <<world, shape, camera, canvas, render>>

\* A call of World::shade_hit with the computations prepared for the k-th
\* intersection of a ray with the world.
ShadeHit(ray, k) ==
    /\ call = Idle
    /\ \E xs \in {WorldIntersect(world, ray)} :
           /\ ~xs.panic
           /\ k \in DOMAIN xs.val
           /\ \E comps \in {prepare(world.objects, xs.val[k], ray)} :
                  call' = [op |-> "shade_hit", comps |-> comps,
                           res |-> Returned(shade_hit(world, comps))]
    /\ UNCHANGED <<world, shape, camera, canvas, render>>

\* A call of Computations::prepare for the k-th intersection of a ray with
\* the world.
Prepare(ray, k) ==
    /\ call = Idle
    /\ \E xs \in {WorldIntersect(world, ray)} :
           /\ ~xs.panic
           /\ k \in DOMAIN xs.val
           /\ call' = [op |-> "prepare", intersection |-> xs.val[k], ray |-> ray,
                       res |-> Returned(prepare(world.objects, xs.val[k], ray))]
    /\ UNCHANGED <<world, shape, camera, canvas, render>>

\* The caller takes the result.
Return ==
    /\ call # Idle
    /\ call' = Idle
    /\ UNCHANGED <<world, shape, camera, canvas, render>>

Next ==
    \/ AddSphere
    \/ \E i \in 1..MaxObjects, m \in Transforms : SetTransform(i, m)
    \/ \E light \in Lights : AddLight(light)
    \/ \E ray \in Rays : Intersect(ray)
    \/ \E ray \in Rays : ColorAt(ray)
    \/ \E p \in Points, l \in 1..MaxLights : IsShadowed(p, l)
    \/ \E ray \in Rays, k \in 1..(2 * MaxObjects) : ShadeHit(ray, k)
    \/ \E ray \in Rays, k \in 1..(2 * MaxObjects) : Prepare(ray, k)
    \/ Return

Spec == Init /\ [][Next]_vars

\* --------------------------------------------- intersections() and hit()

\* The sequences over set of a length up to n.
SeqsUpTo(set, n) == UNION {[1..k -> set] : k \in 0..n}

\* The lists of intersections the calls are made with: t negative, zero,
\* positive or NaN, on either of two shapes.
ListTs == {S(0 - 1), 0, S(1), S(2), NaN}
Lists == SeqsUpTo({Intersection(t, o) : t \in ListTs, o \in 1..2}, MaxLen)

\* A call of intersections().
Intersections(list) ==
    /\ call = Idle
    /\ call' = [op |-> "intersections", list |-> list, res |-> intersections(list)]
    /\ UNCHANGED <<world, shape, camera, canvas, render>>

\* A call of hit() with a list that intersections() returned.
Hit(list) ==
    /\ call = Idle
    /\ \E sorted \in {intersections(list)} :
           /\ ~sorted.panic
           /\ call' = [op |-> "hit", xs |-> sorted.val, res |-> Returned(hit(sorted.val))]
    /\ UNCHANGED <<world, shape, camera, canvas, render>>

NextLists ==
    \/ \E list \in Lists : Intersections(list)
    \/ \E list \in Lists : Hit(list)
    \/ Return

SpecLists == Init /\ [][NextLists]_vars

\* ------------------------------------------------------- Shape::intersect

ShapeTransforms ==
    {IDENTITY, translation(0, One, S(4)), translation(0, One, 0), scaling(S(2), S(2), S(2)),
     scaling(One, Halves(1), One), scaling(One, One, 0)}

ShapeRays ==
    Rays \cup {Ray(point(0, S(2), 0), vector(0, 0 - One, 0)),
               Ray(point(0, S(0 - 2), 0), vector(0, One, 0)),
               Ray(point(0, 0, 0), vector(0, 0, One)),
               Ray(point(0, 0, S(0 - 3)), vector(0, 0, 0)),
               Ray(point(0, 0, S(0 - 5)), vector(0, 0, One))}

\* The shape alone is referred to as 0: it is in no list.
Self == 0

InitShape ==
    /\ world = NewWorld
    /\ shape \in {NewShape("Sphere"), NewShape("Plane")}
    /\ camera = NewCamera(1, 1, FRAC_PI_2)
    /\ canvas = NewCanvas(0, 0)
    /\ render = NotRendering
    /\ call = Idle

\* Shape::set_transform on the shape.
ShapeSetTransform(m) ==
    /\ call = Idle
    /\ shape' = set_transform(shape, m)
    /\ UNCHANGED <<world, camera, canvas, render, call>>

\* A call of Shape::intersect on the shape.
ShapeIntersectCall(ray) ==
    /\ call = Idle
    /\ call' = [op |-> "shape_intersect", ray |-> ray,
                res |-> Returned(ShapeIntersect(Self, shape, ray))]
    /\ UNCHANGED <<world, shape, camera, canvas, render>>

\* Points of the unit sphere, from the tests of the normal of a sphere.  In
\* the space of a plane they are just points: its normal is the same at all.
SurfacePoints ==
    {point(One, 0, 0), point(0, One, 0), point(0, 0, One), point(0, 0, 0 - One),
     point(0, 707, 0 - 707), point(577, 577, 577)}

\* A call of Shape::normal_at on the shape, for a point of its surface.
NormalAt(p) ==
    /\ call = Idle
    /\ call' = [op |-> "normal_at", point |-> p, res |-> Returned(normal_at(shape, p))]
    /\ UNCHANGED <<world, shape, camera, canvas, render>>

\* The patterns and points of the tests of pattern_at_shape.
ShapePatterns ==
    {pattern_set_transform(stripe(WHITE, BLACK), m)
        : m \in {IDENTITY, scaling(S(2), S(2), S(2)), translation(Halves(1), 0, 0)}}

PatternPoints ==
    {point(Halves(3), 0, 0), point(Halves(5), 0, 0), point(Halves(1), 0, 0),
     point(Halves(0 - 1), 0, 0), point(S(3), One, S(0 - 2))}

\* A call of Pattern::pattern_at_shape with the shape as object.
PatternAtShape(pattern, p) ==
    /\ call = Idle
    /\ call' = [op |-> "pattern_at_shape", pattern |-> pattern, point |-> p,
                res |-> Returned(pattern_at_shape(pattern, shape, p))]
    /\ UNCHANGED <<world, shape, camera, canvas, render>>

\* The material of the shape is assigned: a new material, or one with a new
\* pattern of stripes.
SetMaterial(material) ==
    /\ call = Idle
    /\ shape' = [shape EXCEPT !.material = material]
    /\ UNCHANGED <<world, camera, canvas, render, call>>

\* Pattern::set_transform on the pattern of the material of the shape.
PatternSetTransform(m) ==
    /\ call = Idle
    /\ shape' = [shape EXCEPT !.material.pattern = pattern_set_transform(@, m)]
    /\ UNCHANGED <<world, camera, canvas, render, call>>

\* Camera::set_transform, while no image is being rendered.
CameraSetTransform(m) ==
    /\ call = Idle
    /\ render = NotRendering
    /\ camera' = camera_set_transform(camera, m)
    /\ UNCHANGED <<world, shape, canvas, render, call>>

\* A call of Camera::ray_for_pixel on the camera.
RayForPixel(px, py) ==
    /\ call = Idle
    /\ call' = [op |-> "ray_for_pixel", px |-> px, py |-> py,
                res |-> Returned(ray_for_pixel(camera, px, py))]
    /\ UNCHANGED <<world, shape, camera, canvas, render>>

NextShape ==
    \/ \E m \in ShapeTransforms : ShapeSetTransform(m)
    \/ \E ray \in ShapeRays : ShapeIntersectCall(ray)
    \/ \E q \in SurfacePoints : NormalAt(MatTuple(shape.transform, q))
    \/ \E pattern \in ShapePatterns, p \in PatternPoints : PatternAtShape(pattern, p)
    \/ \E material \in {Material, [Material EXCEPT !.pattern = stripe(WHITE, BLACK)]} :
          SetMaterial(material)
    \/ \E m \in {IDENTITY, scaling(S(2), S(2), S(2)), translation(Halves(1), 0, 0)} :
          PatternSetTransform(m)
    \/ \E m \in {IDENTITY, translation(0, One, S(4)), scaling(One, One, 0)} :
          CameraSetTransform(m)
    \/ \E px \in 0..(camera.hsize - 1), py \in 0..(camera.vsize - 1) : RayForPixel(px, py)
    \/ Return

SpecShape == InitShape /\ [][NextShape]_vars

\* --------------------------------------------------------- Camera::render

CameraTransforms ==
    {view(point(0, 0, S(0 - 5)), point(0, 0, 0), vector(0, One, 0)),
     translation(0, One, S(2))}

Fovs == {FRAC_PI_2, FRAC_PI_6}

\* The default world, and a camera of any size up to MaxSize x MaxSize.
InitRender ==
    /\ world = DefaultWorld
    /\ shape = NewShape("Sphere")
    /\ camera \in {NewCamera(h, v, f) : h \in 1..MaxSize, v \in 1..MaxSize, f \in Fovs}
    /\ canvas = NewCanvas(0, 0)
    /\ render = NotRendering
    /\ call = Idle

\* Camera::render is called: the image is created, the loops start at (0, 0).
RenderStart ==
    /\ call = Idle
    /\ render = NotRendering
    /\ render' = [pc |-> "loop", self |-> camera, world |-> world,
                  image |-> NewCanvas(camera.hsize, camera.vsize),
                  x |-> 0, y |-> 0, writes |-> EmptyBag, last |-> <<>>]
    /\ UNCHANGED <<world, shape, camera, canvas, call>>

\* One turn of the inner loop: the pixel (x, y) is computed and written, and
\* the loops move on to the next pixel of the row, or to the next row.
RenderPixel ==
    /\ render.pc = "loop"
    /\ render.y < camera.vsize
    /\ render.x < camera.hsize
    /\ \E r \in {render_pixel(camera, world, render.image, render.x, render.y)},
          last \in {render.x + 1 >= camera.hsize} :
           IF r.panic
           THEN /\ render' = NotRendering
                /\ call' = [op |-> "render", self |-> render.self, world |-> render.world,
                            res |-> Panicked, writes |-> render.writes,
                            last |-> render.last]
           ELSE /\ render' = [render EXCEPT !.image = r.val,
                                            !.x = IF last THEN 0 ELSE @ + 1,
                                            !.y = IF last THEN @ + 1 ELSE @,
                                            !.writes = @ (+) SetToBag({<<render.x, render.y>>}),
                                            !.last = <<render.x, render.y>>]
                /\ UNCHANGED call
    /\ UNCHANGED <<world, shape, camera, canvas>>

\* The loops are over: render returns the image.
RenderReturn ==
    /\ render.pc = "loop"
    /\ render.y >= camera.vsize
    /\ call' = [op |-> "render", self |-> render.self, world |-> render.world,
                res |-> Returned(render.image), writes |-> render.writes,
                last |-> render.last]
    /\ render' = NotRendering
    /\ UNCHANGED <<world, shape, camera, canvas>>

NextRender ==
    \/ \E m \in CameraTransforms : CameraSetTransform(m)
    \/ RenderStart
    \/ RenderPixel
    \/ RenderReturn
    \/ Return

SpecRender == InitRender /\ [][NextRender]_vars

\* The pixels of the image computed as tasks of their own, in any order: a
\* task is the body of the loops for a pixel that is not written yet.
PixelTask(x, y) ==
    /\ render.pc = "loop"
    /\ x \in 0..(camera.hsize - 1)
    /\ y \in 0..(camera.vsize - 1)
    /\ ~BagIn(<<x, y>>, render.writes)
    /\ \E r \in {render_pixel(camera, world, render.image, x, y)} :
           IF r.panic
           THEN /\ render' = NotRendering
                /\ call' = [op |-> "render", self |-> render.self, world |-> render.world,
                            res |-> Panicked, writes |-> render.writes,
                            last |-> render.last]
           ELSE /\ render' = [render EXCEPT !.image = r.val,
                                            !.writes = @ (+) SetToBag({<<x, y>>}),
                                            !.last = <<x, y>>]
                /\ UNCHANGED call
    /\ UNCHANGED <<world, shape, camera, canvas>>

\* Every task has ended: the image is returned.
TasksReturn ==
    /\ render.pc = "loop"
    /\ BagCardinality(render.writes) = camera.hsize * camera.vsize
    /\ call' = [op |-> "render", self |-> render.self, world |-> render.world,
                res |-> Returned(render.image), writes |-> render.writes,
                last |-> render.last]
    /\ render' = NotRendering
    /\ UNCHANGED <<world, shape, camera, canvas>>

NextTasks ==
    \/ \E m \in CameraTransforms : CameraSetTransform(m)
    \/ RenderStart
    \/ \E x \in 0..(MaxSize - 1), y \in 0..(MaxSize - 1) : PixelTask(x, y)
    \/ TasksReturn
    \/ Return

SpecTasks == InitRender /\ [][NextTasks]_vars

\* ------------------------------------------------------- a canvas of its own

\* A new canvas of a width and a height up to the bound.
InitCanvas ==
    /\ world = NewWorld
    /\ shape = NewShape("Sphere")
    /\ camera = NewCamera(1, 1, FRAC_PI_2)
    /\ canvas \in {NewCanvas(w, h) : w \in 0..MaxSize, h \in 0..MaxSize}
    /\ render = NotRendering
    /\ call = Idle

\* A call of Canvas::write_pixel: the canvas is changed unless the call
\* panics.
WritePixel(x, y, c) ==
    /\ call = Idle
    /\ \E r \in {write_pixel(canvas, x, y, c)} :
           /\ canvas' = IF r.panic THEN canvas ELSE r.val
           /\ call' = [op |-> "write_pixel", x |-> x, y |-> y, color |-> c,
                       res |-> IF r.panic THEN Panicked ELSE Returned(<<>>)]
    /\ UNCHANGED <<world, shape, camera, render>>

\* A call of Canvas::pixel_at, within the canvas.
PixelAt(x, y) ==
    /\ call = Idle
    /\ y \in DOMAIN canvas.pixels
    /\ x \in DOMAIN canvas.pixels[y]
    /\ call' = [op |-> "pixel_at", x |-> x, y |-> y,
                res |-> Returned(pixel_at(canvas, x, y))]
    /\ UNCHANGED <<world, shape, camera, canvas, render>>

NextCanvas ==
    \/ \E x \in 0..MaxSize, y \in 0..MaxSize, c \in {color(0, 0, 0), color(One, 0, 0)} :
          WritePixel(x, y, c)
    \/ \E x \in 0..MaxSize, y \in 0..MaxSize : PixelAt(x, y)
    \/ Return

SpecCanvas == InitCanvas /\ [][NextCanvas]_vars

\* ------------------------------------------- calls of the pure functions

\* Rays in the space of a shape: the rays of the tests of the sphere and of
\* the plane, rays whose direction is no unit vector, and a ray with no
\* direction at all.
LocalRays ==
    {Ray(o, d) :
        o \in {point(0, 0, S(0 - 5)), point(0, One, S(0 - 5)), point(0, S(2), S(0 - 5)),
               point(0, Halves(1), S(0 - 5)), point(0, 0, 0), point(0, 0, S(5)),
               point(0, S(10), 0), point(0, One, 0), point(0, 0 - One, 0),
               point(One, One, S(0 - 5))},
        d \in {vector(0, 0, One), vector(0, 0, 0 - One), vector(0, 0 - One, 0),
               vector(0, One, 0), vector(0, 0, S(2)), vector(0, One, One),
               vector(0, 0, 0)}}

\* A call of local_intersect of a sphere or of a plane.
LocalIntersect(shape_type, ray) ==
    /\ call = Idle
    /\ call' = [op |-> "local_intersect", shape_type |-> shape_type, ray |-> ray,
                res |-> Returned(local_intersect(shape_type, ray))]
    /\ UNCHANGED <<world, shape, camera, canvas, render>>

\* The material of the tests of lighting, and materials with other patterns
\* and coefficients.
Materials ==
    {Material,
     [Material EXCEPT !.pattern = stripe(WHITE, BLACK), !.ambient = One,
                      !.diffuse = 0, !.specular = 0],
     [Material EXCEPT !.pattern = solid(color(Tenths(8), One, Tenths(6))),
                      !.diffuse = Tenths(7), !.specular = Tenths(2)],
     [Material EXCEPT !.ambient = Tenths(3), !.shininess = S(10)]}

\* A call of Material::lighting for a point of a sphere whose normal there is
\* (0, 0, -1).
Lighting(material, light, p, eyev, in_shadow) ==
    /\ call = Idle
    /\ call' = [op |-> "lighting", material |-> material, light |-> light,
                point |-> p, eyev |-> eyev, normalv |-> vector(0, 0, 0 - One),
                in_shadow |-> in_shadow,
                res |-> Returned(lighting(material, NewShape("Sphere"), light, p, eyev,
                                          vector(0, 0, 0 - One), in_shadow))]
    /\ UNCHANGED <<world, shape, camera, canvas, render>>

\* A call of PatternType::pattern_at.
PatternAt(pt, p) ==
    /\ call = Idle
    /\ call' = [op |-> "pattern_at", pattern_type |-> pt, point |-> p,
                res |-> Returned(pattern_at(pt, p))]
    /\ UNCHANGED <<world, shape, camera, canvas, render>>

\* Matrices of the tests of the transformations, a scaling that is not
\* uniform, and a matrix that is no transformation of space (its last row is
\* not 0, 0, 0, 1).
KernelMatrices ==
    {IDENTITY, translation(S(10), S(5), S(7)), scaling(S(5), S(5), S(5)),
     scaling(One, Halves(1), One), translation(0, One, 0),
     [i \in 0..3 |-> [j \in 0..3 |->
         <<<<One, S(2), 0, One>>, <<0, One, One, 0>>, <<S(2), 0, One, 0>>,
           <<0, One, 0, One>>>>[i + 1][j + 1]]]}

\* The evaluation of (c * b * a) * p, as the chained transformations of the
\* tests are built and applied.
Chain(a, b, c, p) ==
    /\ call = Idle
    /\ call' = [op |-> "chain", a |-> a, b |-> b, c |-> c, p |-> p,
                res |-> Returned(MatTuple(MatMul(MatMul(c, b), a), p))]
    /\ UNCHANGED <<world, shape, camera, canvas, render>>

\* The evaluation of a.inverse().inverse(), of (a * b).inverse() and of
\* (a * b) * b.inverse(), as in the tests of the inverse.
Inverse(a, b) ==
    /\ call = Idle
    /\ call' = [op |-> "inverse", a |-> a, b |-> b,
                twice |-> inverse(inverse(a)),
                of_product |-> inverse(MatMul(a, b)),
                undone |-> MatMul(MatMul(a, b), inverse(b))]
    /\ UNCHANGED <<world, shape, camera, canvas, render>>

\* The evaluation of a + b and of a - b for two tuples.
TupleArith(a, b) ==
    /\ call = Idle
    /\ call' = [op |-> "tuple_arith", a |-> a, b |-> b,
                sum |-> TAdd(a, b), difference |-> TSub(a, b)]
    /\ UNCHANGED <<world, shape, camera, canvas, render>>

\* A call of Canvas::to_ppm.
ToPpm(cv) ==
    /\ call = Idle
    /\ call' = [op |-> "to_ppm", canvas |-> cv, res |-> Returned(to_ppm(cv))]
    /\ UNCHANGED <<world, shape, camera, canvas, render>>

\* A call of Canvas::to_rgb_vec.
ToRgbVec(cv) ==
    /\ call = Idle
    /\ call' = [op |-> "to_rgb_vec", canvas |-> cv, res |-> Returned(to_rgb_vec(cv))]
    /\ UNCHANGED <<world, shape, camera, canvas, render>>

\* A call of Camera::new.
CameraNew(hsize, vsize, field_of_view) ==
    /\ call = Idle
    /\ call' = [op |-> "camera_new", hsize |-> hsize, vsize |-> vsize,
                field_of_view |-> field_of_view,
                res |-> Returned(NewCamera(hsize, vsize, field_of_view))]
    /\ UNCHANGED <<world, shape, camera, canvas, render>>

\* The canvases that are encoded: a new canvas of one of the sizes of the
\* tests, or of no width or no height, painted like a chessboard by
\* write_pixel with two of the colours of the tests of to_ppm or with a
\* colour of channels that are no numbers, as the lighting of a malformed
\* scene gives.
Painted ==
    {[NewCanvas(w, h) EXCEPT
        !.pixels = [y \in 0..(h - 1) |-> [x \in 0..(w - 1) |->
                       IF (x + y) % 2 = 0 THEN c ELSE d]]]
        : w \in {0, 1, 5, 6, 10}, h \in {0, 1, 2, 3},
          c, d \in {color(One, Tenths(8), Tenths(6)), color(Halves(3), 0, 0),
                    color(0, Halves(1), 0), color(Halves(0 - 1), 0, One), BLACK,
                    color(NaN, PosInf, NegInf)}}

\* The calls, with the inputs of the tests of each function and others next
\* to them: lights, points and eye vectors of the tests of lighting;
\* coordinates on both sides of 0 for the patterns, numbers that f64 holds
\* exactly but for 0.9, -0.1, -1.1 and 0.708, which are far from a whole
\* number; for the inverses a smaller scaling, so that the determinant of a
\* product stays small, and a scaling with no inverse.
NextKernel ==
    \/ \E shape_type \in {"Sphere", "Plane"}, ray \in LocalRays :
          LocalIntersect(shape_type, ray)
    \/ \E material \in Materials,
          light \in {PointLight(p, i) :
                        p \in {point(0, 0, S(0 - 10)), point(0, S(10), S(0 - 10)),
                               point(0, 0, S(10))},
                        i \in {WHITE, color(Halves(1), One, One)}},
          p \in {point(0, 0, 0), point(Tenths(11), 0, 0)},
          eyev \in {vector(0, 0, 0 - One), vector(0, 707, 0 - 707),
                    vector(0, 0 - 707, 0 - 707), vector(0, 0, One)},
          in_shadow \in BOOLEAN :
          Lighting(material, light, p, eyev, in_shadow)
    \/ \E pt \in {stripe(WHITE, BLACK).pattern_type, ring(WHITE, BLACK).pattern_type},
          x \in {S(0 - 2), Halves(0 - 3), Tenths(0 - 11), 0 - One, Halves(0 - 1),
                 Tenths(0 - 1), 0, Halves(1), 708, Tenths(9), One, Halves(3), S(2),
                 Halves(5), S(3)},
          y \in {0, One, S(2)},
          z \in {0, Halves(1), 708, One, S(2), S(4)} :
          PatternAt(pt, point(x, y, z))
    \/ \E hsize \in {1, 2, 3, 4, 5, 125, 200}, vsize \in {1, 2, 3, 4, 5, 125, 200},
          field_of_view \in Fovs :
          CameraNew(hsize, vsize, field_of_view)
    \/ \E a \in KernelMatrices, b \in KernelMatrices, c \in KernelMatrices,
          p \in {point(One, 0, One), point(One, S(2), S(3)), vector(0, One, 0),
                  point(Halves(1), 0 - One, S(2))} :
          Chain(a, b, c, p)
    \/ \E a, b \in (KernelMatrices \ {scaling(S(5), S(5), S(5))})
                      \cup {scaling(S(2), S(2), S(2)), scaling(One, One, 0)} :
          Inverse(a, b)
    \/ \E cv \in Painted : ToPpm(cv)
    \/ \E cv \in Painted : ToRgbVec(cv)
    \/ \E a, b \in {Tuple(x[1], x[2], x[3], w)
                       : x \in {<<S(3), S(0 - 2), S(5)>>, <<S(0 - 2), S(3), One>>,
                                <<S(3), S(2), One>>, <<S(5), S(6), S(7)>>,
                                <<0, 0, 0>>, <<Halves(1), Tenths(0 - 3), One>>},
                         w \in {0, One}} :
          TupleArith(a, b)
    \/ Return

SpecKernel == Init /\ [][NextKernel]_vars

\* ---------------------------------------------------------- the properties

\* The intersections of the ray with the shapes of the world, in the order of
\* the shapes and unsorted.
Candidates(w, ray) == extend_all(w, ray, Len(w.objects))

\* The places in cands of the intersections with the lowest positive t.
NearestPositive(cands) ==
    {k \in DOMAIN cands :
        /\ Gt(cands[k].t, 0)
        /\ \A j \in DOMAIN cands : Gt(cands[j].t, 0) => Le(cands[k].t, cands[j].t)}

\* xs is in ascending order of t.
Ascending(xs) == \A j, k \in DOMAIN xs : j < k => Le(xs[j].t, xs[k].t)

\* How many times x is in the sequence xs.
Count(xs, x) == Cardinality({k \in DOMAIN xs : xs[k] = x})

\* The sum of the first n numbers of the sequence ns.
RECURSIVE SumTo(_, _)
SumTo(ns, n) == IF n = 0 THEN 0 ELSE SumTo(ns, n - 1) + ns[n]

\* The lighting of every light of the world at the hit, summed, each light
\* with its shadow state at the over_point of the hit.
ShadowedLighting(w, comps) ==
    TSum([l \in 1..Len(w.lights) |->
            lighting(w.objects[comps.object].material, w.objects[comps.object],
                     w.lights[l], comps.point, comps.eyev, comps.normalv,
                     is_shadowed(w, comps.over_point, w.lights[l]).val)])

\* C1: shade_hit returns the sum, over the lights of the world, of the
\* lighting with each light's shadow state is_shadowed(over_point, light): a
\* hit that an object hides from a light gets only the ambient term of it.
C1_ShadeHitUsesShadowState ==
    (/\ call.op = "shade_hit"
     /\ \A l \in 1..Len(world.lights) :
            ~is_shadowed(world, call.comps.over_point, world.lights[l]).panic)
    => call.res.val = ShadowedLighting(world, call.comps)

\* C2: for a list that intersections() returned, hit returns an intersection
\* with the lowest t >= 0 of the list, and returns None exactly when no t of
\* the list is >= 0.
C2_HitIsLowestNonNegative ==
    (/\ call.op = "hit"
     /\ \A k \in DOMAIN call.xs : IsFinite(call.xs[k].t))
    => LET nonneg == {k \in DOMAIN call.xs : call.xs[k].t >= 0}
       IN  IF nonneg = {} THEN call.res.val = None
           ELSE /\ call.res.val # None
                /\ \E k \in nonneg :
                      /\ call.res.val = Some(call.xs[k])
                      /\ \A j \in nonneg : call.xs[k].t <= call.xs[j].t

\* C3: color_at returns black when no intersection of the ray with the world
\* has a positive t, and else the shade_hit of the computations prepared for
\* an intersection with the lowest positive t over all the shapes.
C3_ColorAtShadesNearestPositiveHit ==
    (call.op = "color_at" /\ ~call.res.panic)
    => LET cands == Candidates(world, call.ray)
       IN  IF NearestPositive(cands) = {} THEN call.res.val = BLACK
           ELSE \E k \in NearestPositive(cands) :
                   call.res.val =
                       shade_hit(world, prepare(world.objects, cands[k], call.ray))

\* A ray that has an object behind it and an object in front of it, in a
\* world with a light: the colour is not black.
C3_Witness ==
    /\ call.op = "color_at"
    /\ ~call.res.panic
    /\ \E k \in DOMAIN Candidates(world, call.ray) :
           Lt(Candidates(world, call.ray)[k].t, 0)
    /\ NearestPositive(Candidates(world, call.ray)) # {}
    /\ call.res.val # BLACK

\* C4: is_shadowed is true exactly when the ray from the point toward the
\* light has a nearest positive hit whose t is less than the distance from
\* the point to the light.
C4_IsShadowedIffHitBeforeLight ==
    (call.op = "is_shadowed" /\ ~call.res.panic)
    => LET v == TSub(call.light.position, call.point)
           cands == Candidates(world, Ray(call.point, normalize(v)))
       IN  call.res.val <=>
               \E k \in NearestPositive(cands) : Lt(cands[k].t, magnitude(v))

\* A point that an object hides from the light.
C4_Witness ==
    /\ call.op = "is_shadowed"
    /\ ~call.res.panic
    /\ call.res.val

\* The cells of a grid of hsize columns and vsize rows.
Cells(hsize, vsize) == {<<x, y>> : x \in 0..(hsize - 1), y \in 0..(vsize - 1)}

\* C5: render returns a grid of hsize columns and vsize rows whose cell
\* (x, y) is color_at(ray_for_pixel(x, y)); every cell of the grid is written
\* once, and nothing else is written.
C5_RenderFillsEveryCellOnce ==
    (call.op = "render" /\ ~call.res.panic)
    => LET image == call.res.val
           cells == Cells(camera.hsize, camera.vsize)
       IN  /\ image.width = camera.hsize
           /\ image.height = camera.vsize
           /\ DOMAIN image.pixels = 0..(camera.vsize - 1)
           /\ \A y \in DOMAIN image.pixels :
                  DOMAIN image.pixels[y] = 0..(camera.hsize - 1)
           /\ \A c \in cells :
                  Returned(pixel_at(image, c[1], c[2])) =
                      color_at(world, ray_for_pixel(camera, c[1], c[2]))
           /\ \A c \in cells : CopiesIn(c, call.writes) = 1
           /\ BagToSet(call.writes) \subseteq cells

\* An image of more than one row and one column, of which two cells differ.
C5_Witness ==
    /\ call.op = "render"
    /\ ~call.res.panic
    /\ camera.hsize > 1
    /\ camera.vsize > 1
    /\ pixel_at(call.res.val, 0, 1) # pixel_at(call.res.val, 1, 0)

\* C6: the pixels computed as tasks in any order give the grid that the
\* loops of render give, and leave the camera and the world as they were
\* when render was called.
C6_AnyOrderGivesTheSequentialImage ==
    (call.op = "render" /\ ~call.res.panic)
    => /\ call.res = render_image(call.self, call.world)
       /\ camera = call.self
       /\ world = call.world

\* An image whose pixels are not all of one colour, and whose first cell was
\* written last.
C6_Witness ==
    /\ call.op = "render"
    /\ ~call.res.panic
    /\ BagCardinality(call.writes) > 1
    /\ call.last = <<0, 0>>
    /\ \E c, d \in Cells(camera.hsize, camera.vsize) :
           pixel_at(call.res.val, c[1], c[2]) # pixel_at(call.res.val, d[1], d[2])

\* C7: a malformed scene never crashes: whatever the transforms of the shapes
\* and the ray, World::intersect and World::color_at return.
C7_MalformedSceneNeverCrashes ==
    call.op \in {"intersect", "color_at"} => ~call.res.panic

\* C8: intersections returns its input in another order: as long, ascending
\* in t, and with the intersections of every one t in the order they had in
\* the input.
C8_IntersectionsIsAStableSort ==
    (call.op = "intersections" /\ ~call.res.panic)
    => LET out == call.res.val
           ts == {call.list[k].t : k \in DOMAIN call.list}
                     \cup {out[k].t : k \in DOMAIN out}
       IN  /\ Len(out) = Len(call.list)
           /\ Ascending(out)
           /\ \A v \in ts :
                  LET OfT(x) == x.t = v
                  IN  SelectSeq(out, OfT) = SelectSeq(call.list, OfT)

\* A list out of order, with two intersections of one t on two shapes.
C8_Witness ==
    /\ call.op = "intersections"
    /\ ~call.res.panic
    /\ call.res.val # call.list
    /\ \E j, k \in DOMAIN call.list :
           /\ j < k
           /\ call.list[j].t = call.list[k].t
           /\ call.list[j].object # call.list[k].object

\* C9: World::intersect returns the intersections of every shape of the
\* world with the ray, each as many times as the shape gives it and no
\* other, as many as the shapes give together, ascending in t.
C9_WorldIntersectIsTheSortedUnion ==
    (call.op = "intersect" /\ ~call.res.panic)
    => LET out == call.res.val
           of_shape == [i \in 1..Len(world.objects) |->
                            ShapeIntersect(i, world.objects[i], call.ray)]
           lens == [i \in 1..Len(world.objects) |-> Len(of_shape[i])]
       IN  /\ Len(out) = SumTo(lens, Len(world.objects))
           /\ \A k \in DOMAIN out : out[k].object \in DOMAIN of_shape
           /\ \A i \in DOMAIN of_shape :
                  \A x \in {of_shape[i][k] : k \in DOMAIN of_shape[i]}
                               \cup {out[k] : k \in DOMAIN out} :
                      x.object = i => Count(out, x) = Count(of_shape[i], x)
           /\ Ascending(out)

\* Two shapes that the ray both meets, the second one first.
C9_Witness ==
    /\ call.op = "intersect"
    /\ ~call.res.panic
    /\ Len(call.res.val) = 4
    /\ call.res.val[1].object = 2
    /\ call.res.val # Candidates(world, call.ray)

\* C10: Shape::intersect returns one intersection for each root that
\* local_intersect gives for the ray taken to the space of the shape by the
\* cached inverse, in the order of the roots, each one of the shape itself;
\* at most two for a sphere and at most one for a plane.
C10_ShapeIntersectWrapsTheLocalRoots ==
    call.op = "shape_intersect"
    => LET out == call.res.val
           roots == local_intersect(shape.shape_type,
                                    RayTransform(call.ray, shape.inversed_transform))
       IN  /\ Len(out) = Len(roots)
           /\ \A k \in DOMAIN out : out[k] = Intersection(roots[k], Self)
           /\ shape.shape_type = "Sphere" => Len(out) \in {0, 1, 2}
           /\ shape.shape_type = "Plane" => Len(out) \in {0, 1}

\* A sphere that is moved, met twice by the ray.
C10_Witness ==
    /\ call.op = "shape_intersect"
    /\ shape.shape_type = "Sphere"
    /\ shape.transform # IDENTITY
    /\ Len(call.res.val) = 2
    /\ \A k \in DOMAIN call.res.val : IsFinite(call.res.val[k].t)

\* The discriminant b * b - 4 * a * c of the quadratic of a ray and the unit
\* sphere at the origin, from the coefficients the claim names.
QuadA(ray) == dot(ray.direction, ray.direction)
QuadB(ray) == Mul(S(2), dot(ray.direction, TSub(ray.origin, point(0, 0, 0))))
QuadC(ray) ==
    Sub(dot(TSub(ray.origin, point(0, 0, 0)), TSub(ray.origin, point(0, 0, 0))), One)
Discriminant(ray) ==
    Sub(Mul(QuadB(ray), QuadB(ray)), Mul(Mul(S(4), QuadA(ray)), QuadC(ray)))

\* C11: local_intersect of a sphere returns no root when the discriminant of
\* a * t * t + b * t + c = 0 is negative, and otherwise exactly the two roots
\* (-b - sqrt(disc)) / (2 * a) and (-b + sqrt(disc)) / (2 * a), in this
\* order; two roots that are numbers are in non-decreasing order, a tangent
\* ray has two equal roots, every root that is a number is the parameter of
\* a point of the sphere, and negative roots are returned as they are.
C11_SphereRootsOfTheQuadratic ==
    (call.op = "local_intersect" /\ call.shape_type = "Sphere") =>
        LET disc == Discriminant(call.ray)
            ts == call.res.val
        IN  /\ ~call.res.panic
            /\ Lt(disc, 0) => ts = <<>>
            /\ ~Lt(disc, 0) =>
                  /\ Len(ts) = 2
                  /\ ts[1] = Div(Sub(Neg(QuadB(call.ray)), Sqrt(disc)),
                                 Mul(S(2), QuadA(call.ray)))
                  /\ ts[2] = Div(Add(Neg(QuadB(call.ray)), Sqrt(disc)),
                                 Mul(S(2), QuadA(call.ray)))
                  /\ (IsFinite(ts[1]) /\ IsFinite(ts[2])) => Le(ts[1], ts[2])
                  /\ disc = 0 => ts[1] = ts[2]
                  /\ \A k \in 1..2 :
                        IsFinite(ts[k]) =>
                            AbsInt(magnitude(TSub(position(call.ray, ts[k]),
                                                  point(0, 0, 0))) - One) <= 2

\* A tangent ray was intersected: two equal roots; and they are numbers.
C11_Witness ==
    /\ call.op = "local_intersect"
    /\ call.shape_type = "Sphere"
    /\ Discriminant(call.ray) = 0
    /\ Len(call.res.val) = 2
    /\ IsFinite(call.res.val[1])
    /\ call.res.val[1] = call.res.val[2]

\* C12: local_intersect of a plane returns no root for a ray parallel to the
\* plane y = 0 (a direction with no y component), the coplanar ray included,
\* and otherwise exactly the one root -origin.y / direction.y, which is the
\* parameter of a point of the plane and is positive for a ray that starts
\* above the plane and goes down as for one that starts below and goes up.
C12_PlaneRootIsWhereTheRayCrossesY0 ==
    (call.op = "local_intersect" /\ call.shape_type = "Plane") =>
        LET o == call.ray.origin.y
            d == call.ray.direction.y
            ts == call.res.val
        IN  /\ ~call.res.panic
            /\ d = 0 => ts = <<>>
            /\ d # 0 =>
                  /\ ts = <<Div(Neg(o), d)>>
                  /\ position(call.ray, ts[1]).y = 0
                  /\ ((o > 0 /\ d < 0) \/ (o < 0 /\ d > 0)) => Gt(ts[1], 0)

\* A ray from below the plane, going up, was intersected: one positive root.
C12_Witness ==
    /\ call.op = "local_intersect"
    /\ call.shape_type = "Plane"
    /\ call.ray.origin.y < 0
    /\ call.ray.direction.y > 0
    /\ Len(call.res.val) = 1
    /\ Gt(call.res.val[1], 0)

\* C13: prepare keeps the t and the object of the intersection, sets point
\* to the position of the ray at t and eyev to the negated direction of the
\* ray; inside is true, with normalv the negated normal of the object at
\* point, exactly when that normal and eyev have a negative dot product, and
\* otherwise inside is false and normalv is that normal.  So normalv and eyev
\* never have a negative dot product.
C13_PrepareOrientsTheNormalToTheEye ==
    call.op = "prepare" =>
        LET c == call.res.val
            i == call.intersection
            n == normal_at(world.objects[i.object], position(call.ray, i.t))
        IN  /\ c.t = i.t
            /\ c.object = i.object
            /\ c.point = position(call.ray, i.t)
            /\ c.eyev = TNeg(call.ray.direction)
            /\ c.inside <=> Lt(dot(n, c.eyev), 0)
            /\ c.normalv = IF c.inside THEN TNeg(n) ELSE n
            /\ Ge(dot(c.normalv, c.eyev), 0)

\* The computations of a hit from the inside of a shape were prepared: the
\* normal was flipped.
C13_Witness ==
    /\ call.op = "prepare"
    /\ call.res.val.inside
    /\ call.res.val.normalv =
           TNeg(normal_at(world.objects[call.intersection.object], call.res.val.point))
    /\ Gt(dot(call.res.val.normalv, call.res.val.eyev), 0)

\* C14: over_point is point + normalv * EPSILON for the normalv of the
\* result, the flipped one when the hit is from the inside; the displacement
\* from point to over_point never has a negative dot product with eyev, so it
\* never goes to the side of the surface that faces away from the eye.
C14_OverPointIsOnTheSideOfTheEye ==
    call.op = "prepare" =>
        LET c == call.res.val
        IN  /\ c.over_point = TAdd(c.point, TScale(c.normalv, EPSILON))
            /\ Ge(dot(TSub(c.over_point, c.point), c.eyev), 0)

\* The computations of a hit from the inside were prepared: over_point is
\* displaced against the normal of the shape, toward the eye.
C14_Witness ==
    /\ call.op = "prepare"
    /\ call.res.val.inside
    /\ Gt(dot(TSub(call.res.val.over_point, call.res.val.point), call.res.val.eyev), 0)

\* The colour of the pattern of the material of a call of lighting at its
\* point, times the intensity of the light; the direction from the point to
\* the light.
EffectiveColor ==
    TMul(pattern_at_shape(call.material.pattern, NewShape("Sphere"), call.point),
         call.light.intensity)
LightV == normalize(TSub(call.light.position, call.point))

\* C15: whenever in_shadow is set or the light is behind the surface (the
\* direction to the light and the normal have a negative dot product),
\* lighting returns exactly the ambient term, the colour of the pattern times
\* the intensity of the light times the ambient coefficient, whatever the eye
\* vector and the diffuse and specular coefficients are.
C15_ShadowedOrBackLitIsAmbientOnly ==
    (call.op = "lighting" /\ (call.in_shadow \/ Lt(dot(LightV, call.normalv), 0)))
    => call.res.val = TScale(EffectiveColor, call.material.ambient)

\* lighting was called for a point in shadow with the light in front of the
\* surface and a material that reflects diffusely: only the ambient term came
\* back.
C15_Witness ==
    /\ call.op = "lighting"
    /\ call.in_shadow
    /\ Gt(dot(LightV, call.normalv), 0)
    /\ Gt(call.material.diffuse, 0)
    /\ call.res.val = TScale(EffectiveColor, call.material.ambient)

\* C16: for a lit point, lighting returns the sum of the ambient, the
\* diffuse and the specular term, with no channel cut off at 1: the default
\* material under a white light, with the eye, the normal and the light in one
\* line, gets 1.9 in each channel.  The specular term is black when the
\* reflection of the light and the eye have a negative dot product.
C16_LightingIsTheUnclampedSum ==
    (call.op = "lighting" /\ ~call.in_shadow /\ ~Lt(dot(LightV, call.normalv), 0))
    => LET ambient == TScale(EffectiveColor, call.material.ambient)
           diffuse == TScale(TScale(EffectiveColor, call.material.diffuse),
                             dot(LightV, call.normalv))
           reflect_dot_eye == dot(reflect(TNeg(LightV), call.normalv), call.eyev)
           specular == TScale(TScale(call.light.intensity, call.material.specular),
                              Powf(reflect_dot_eye, call.material.shininess))
       IN  /\ Lt(reflect_dot_eye, 0) => call.res.val = TAdd(ambient, diffuse)
           /\ ~Lt(reflect_dot_eye, 0)
                 => call.res.val = TAdd(TAdd(ambient, diffuse), specular)
           /\ (/\ call.material = Material
               /\ call.light = PointLight(point(0, 0, S(0 - 10)), WHITE)
               /\ call.point = point(0, 0, 0)
               /\ call.eyev = call.normalv)
              => call.res.val = color(Tenths(19), Tenths(19), Tenths(19))

\* lighting returned a colour with a channel above 1.
C16_Witness ==
    /\ call.op = "lighting"
    /\ ~call.in_shadow
    /\ call.material = Material
    /\ call.res.val = color(Tenths(19), Tenths(19), Tenths(19))

\* The normal of the shape at the point of a call of normal_at, in the space
\* of the shape.
ObjectNormal ==
    local_normal_at(shape.shape_type, MatTuple(shape.inversed_transform, call.point))

\* C17: for a shape with an invertible transform, translations included,
\* normal_at returns the product of the transposed cached inverse and the
\* local normal at inverse * point, with w set to 0 and scaled to length 1
\* (to the last digits of the scalars of the model).
C17_NormalAtIsAUnitVector ==
    (call.op = "normal_at" /\ is_invertible(shape.transform))
    => LET n == call.res.val
           world_normal == MatTuple(transpose(shape.inversed_transform), ObjectNormal)
       IN  /\ n.w = 0
           /\ IsFinite(n.x) /\ IsFinite(n.y) /\ IsFinite(n.z)
           /\ AbsInt(magnitude(n) - One) <= 2
           /\ n = normalize(vector(world_normal.x, world_normal.y, world_normal.z))

\* The normal of a translated sphere was computed: the test of shapes.rs.
C17_Witness ==
    /\ call.op = "normal_at"
    /\ shape.shape_type = "Sphere"
    /\ shape.transform = translation(0, One, 0)
    /\ call.point = point(0, 1707, 0 - 707)
    /\ call.res.val = vector(0, 707, 0 - 707)

\* C18: pattern_at_shape is the pattern function at
\* pattern.inverse * (shape.inverse * world_point), the inverse of the shape
\* applied first; for the striped pattern that is the first colour when the
\* floor of the x of this point is even and the second when it is odd.
C18_PatternAtShapeUndoesShapeThenPattern ==
    call.op = "pattern_at_shape" =>
        LET pattern_point ==
                MatTuple(call.pattern.invered_transform,
                         MatTuple(shape.inversed_transform, call.point))
        IN  /\ call.res.val = pattern_at(call.pattern.pattern_type, pattern_point)
            /\ IsFinite(pattern_point.x) =>
                  call.res.val = IF (pattern_point.x \div One) % 2 = 0
                                 THEN call.pattern.pattern_type.a
                                 ELSE call.pattern.pattern_type.b

\* The test with both transforms: a shape scaled by 2, a pattern translated
\* by 0.5, the point (2.5, 0, 0), and the first colour.
C18_Witness ==
    /\ call.op = "pattern_at_shape"
    /\ shape.transform = scaling(S(2), S(2), S(2))
    /\ call.pattern.transform = translation(Halves(1), 0, 0)
    /\ call.point = point(Halves(5), 0, 0)
    /\ call.res.val = WHITE

\* C19: the stripes return the first colour where floor(x) is even and the
\* second where it is odd, on both sides of 0 (the second for x in [-1, 0),
\* the first for x in [-2, -1)), whatever y and z are.
C19_StripesAlternateWithTheFloorOfX ==
    (call.op = "pattern_at" /\ call.pattern_type.kind = "Stripe") =>
        /\ call.res.val = IF (call.point.x \div One) % 2 = 0
                          THEN call.pattern_type.a ELSE call.pattern_type.b
        /\ (0 - One <= call.point.x /\ call.point.x < 0)
              => call.res.val = call.pattern_type.b
        /\ (S(0 - 2) <= call.point.x /\ call.point.x < 0 - One)
              => call.res.val = call.pattern_type.a

\* The stripe at x = -0.1, away from the x axis, was asked for: the second
\* colour.
C19_Witness ==
    /\ call.op = "pattern_at"
    /\ call.pattern_type.kind = "Stripe"
    /\ call.point.x = Tenths(0 - 1)
    /\ call.point.y # 0
    /\ call.point.z # 0
    /\ call.res.val = call.pattern_type.b

\* The square of the distance of a point from the y axis, in millionths, and
\* the floor of that distance, the whole number k with k <= distance < k + 1.
Dist2(p) == p.x * p.x + p.z * p.z
FloorOfDistance(p) ==
    CHOOSE k \in 0..10 : k * k * One * One <= Dist2(p) /\ Dist2(p) < (k + 1) * (k + 1) * One * One

\* C20: the rings return the first colour where the floor of the distance
\* sqrt(x * x + z * z) from the y axis is even and the second where it is odd:
\* the first for 0 <= d < 1, the second for 1 <= d < 2.  Ring::pattern_at
\* takes the remainder of the distance itself, so the first colour is only at
\* the distances 0, 2, 4, ...
C20_RingsAlternateWithTheFloorOfTheDistance ==
    (call.op = "pattern_at" /\ call.pattern_type.kind = "Ring") =>
        /\ Dist2(call.point) < One * One => call.res.val = call.pattern_type.a
        /\ (One * One <= Dist2(call.point) /\ Dist2(call.point) < 4 * One * One)
              => call.res.val = call.pattern_type.b
        /\ call.res.val = IF FloorOfDistance(call.point) % 2 = 0
                          THEN call.pattern_type.a ELSE call.pattern_type.b

\* C21: Camera::new takes half_view = tan(fov / 2); for a canvas at least as
\* wide as high half_width is half_view and half_height is half_view /
\* aspect, and otherwise half_height is half_view and half_width is half_view
\* * aspect; pixel_size is 2 * half_width / hsize.  So the pixels are square,
\* pixel_size * vsize = 2 * half_height, and the camera of the turned canvas
\* has the same pixel_size (both to the rounding of one scalar per pixel).
C21_CameraPixelsAreSquare ==
    call.op = "camera_new" =>
        LET c == call.res.val
            half_view == Tan(Div(call.field_of_view, S(2)))
            aspect == Div(S(call.hsize), S(call.vsize))
        IN  /\ call.hsize >= call.vsize =>
                  c.half_width = half_view /\ c.half_height = Div(half_view, aspect)
            /\ call.hsize < call.vsize =>
                  c.half_height = half_view /\ c.half_width = Mul(half_view, aspect)
            /\ c.pixel_size = Div(Mul(c.half_width, S(2)), S(call.hsize))
            /\ AbsInt(c.pixel_size * call.vsize - 2 * c.half_height) <= call.vsize
            /\ AbsInt(c.pixel_size
                      - NewCamera(call.vsize, call.hsize, call.field_of_view).pixel_size) <= 1

\* The camera of the test of the vertical canvas was made: 125 by 200 pixels
\* of size 0.01.
C21_Witness ==
    /\ call.op = "camera_new"
    /\ call.hsize = 125
    /\ call.vsize = 200
    /\ call.field_of_view = FRAC_PI_2
    /\ call.res.val.pixel_size = 10
    /\ call.res.val.half_height = One

\* C22: the product c * b * a applied to a tuple is c applied to (b applied
\* to (a applied to the tuple)): a acts first, then b, then c.
C22_ChainedTransformsApplyRightToLeft ==
    call.op = "chain" =>
        call.res.val = MatTuple(call.c, MatTuple(call.b, MatTuple(call.a, call.p)))

\* The chain of the test, a translation times a scaling times a third
\* matrix, was applied to the point (1, 0, 1).
C22_Witness ==
    /\ call.op = "chain"
    /\ call.c = translation(S(10), S(5), S(7))
    /\ call.b = scaling(S(5), S(5), S(5))
    /\ call.a = scaling(One, Halves(1), One)
    /\ call.p = point(One, S(2), S(3))
    /\ call.res.val = point(S(15), S(10), S(22))

\* Two matrices of numbers that differ by at most tol in every entry.
MatNear(m, n, tol) ==
    \A i, j \in 0..3 :
        IsFinite(m[i][j]) /\ IsFinite(n[i][j]) /\ AbsInt(m[i][j] - n[i][j]) <= tol

\* C23: for invertible matrices a and b, the inverse of the inverse of a is
\* a, the inverse of a * b is b.inverse() * a.inverse(), and (a * b) *
\* b.inverse() is a, each to the rounding of the scalars; the inverse is the
\* transposed matrix of the cofactors divided by the determinant.
C23_InverseUndoesTheMatrix ==
    (call.op = "inverse" /\ is_invertible(call.a) /\ is_invertible(call.b)) =>
        /\ MatNear(call.twice, call.a, 4)
        /\ MatNear(call.of_product, MatMul(inverse(call.b), inverse(call.a)), 4)
        /\ MatNear(call.undone, call.a, 4)
        /\ \A i, j \in 0..3 :
              inverse(call.a)[i][j] = Div(cofactor(call.a, j, i), determinant(call.a))

\* The inverses of a product of a translation and a matrix that is no
\* transformation of space were taken.
C23_Witness ==
    /\ call.op = "inverse"
    /\ call.a = translation(S(10), S(5), S(7))
    /\ call.b # IDENTITY
    /\ call.b[3][1] # 0
    /\ is_invertible(call.b)
    /\ MatNear(call.undone, call.a, 4)

\* C24: the sum and the difference of tuples keep the tag of points (w = 1)
\* and of vectors (w = 0): a point plus a vector is a point, a vector plus a
\* vector a vector, a point minus a point a vector, a point minus a vector a
\* point and a vector minus a vector a vector; the other three components
\* are added and subtracted one by one.
C24_TupleArithmeticKeepsTheTag ==
    call.op = "tuple_arith" =>
        /\ (call.a.w = One /\ call.b.w = 0) =>
              call.sum.w = One /\ call.difference.w = One
        /\ (call.a.w = 0 /\ call.b.w = 0) => call.sum.w = 0 /\ call.difference.w = 0
        /\ (call.a.w = One /\ call.b.w = One) => call.difference.w = 0
        /\ call.sum.x = call.a.x + call.b.x /\ call.difference.x = call.a.x - call.b.x
        /\ call.sum.y = call.a.y + call.b.y /\ call.difference.y = call.a.y - call.b.y
        /\ call.sum.z = call.a.z + call.b.z /\ call.difference.z = call.a.z - call.b.z

\* Two points were subtracted, those of the test: the vector (-2, -4, -6).
C24_Witness ==
    /\ call.op = "tuple_arith"
    /\ call.a = point(S(3), S(2), One)
    /\ call.b = point(S(5), S(6), S(7))
    /\ call.difference = vector(S(0 - 2), S(0 - 4), S(0 - 6))

\* The pieces of a text between the occurrences of a character.
Split(text, c) ==
    LET at == {i \in DOMAIN text : text[i] = c}
        nth(n) == IF n = 0 THEN 0
                  ELSE IF n > Cardinality(at) THEN Len(text) + 1
                  ELSE CHOOSE i \in at : Cardinality({q \in at : q < i}) = n - 1
    IN  [n \in 1..(Cardinality(at) + 1) |-> SubSeq(text, nth(n - 1) + 1, nth(n) - 1)]

\* The lines of a text in which every line ends with a newline.
Lines(text) == SubSeq(Split(text, "\n"), 1, Len(Split(text, "\n")) - 1)

\* The whole number a sequence of decimal digits stands for; -1 for the empty
\* sequence and for a sequence with another character in it.
RECURSIVE Number(_)
Number(digits) ==
    LET value(d) == CHOOSE n \in 0..9 : <<"0", "1", "2", "3", "4", "5", "6", "7", "8", "9">>[n + 1] = d
        digit(d) == d \in {"0", "1", "2", "3", "4", "5", "6", "7", "8", "9"}
        longer(front) == IF front < 0 THEN 0 - 1 ELSE 10 * front + value(digits[Len(digits)])
    IN  IF digits = <<>> \/ ~digit(digits[Len(digits)]) THEN 0 - 1
        ELSE IF Len(digits) = 1 THEN value(digits[1])
        ELSE longer(Number(SubSeq(digits, 1, Len(digits) - 1)))

\* The numbers of the lines of a text from line k on, in the order of the
\* text.
RECURSIVE NumbersFrom(_, _)
NumbersFrom(lines, k) ==
    IF k > Len(lines) THEN <<>>
    ELSE (IF lines[k] = <<>> THEN <<>>
          ELSE [j \in 1..Len(Split(lines[k], " ")) |-> Number(Split(lines[k], " ")[j])])
         \o NumbersFrom(lines, k + 1)

\* The channels of the pixels of a canvas, row by row, as scalars.
Channels(cv) ==
    [k \in 1..(cv.width * cv.height * 3) |->
        LET pixel == cv.pixels[(k - 1) \div (3 * cv.width)][((k - 1) % (3 * cv.width)) \div 3]
        IN  <<pixel.x, pixel.y, pixel.z>>[((k - 1) % 3) + 1]]

\* A byte that encodes a channel as C25 says: 255 for 1 and above, 0 for 0
\* and below, the nearest whole number to 255 times the channel between
\* them; some byte for a channel that is NaN.
Encodes(byte, channel) ==
    /\ byte \in 0..255
    /\ ~IsNaN(channel) =>
          byte = IF channel >= One THEN 255
                 ELSE IF channel <= 0 THEN 0
                 ELSE (channel * 255 + (One \div 2)) \div One

\* C25: to_rgb_vec and to_ppm encode every channel as the whole number
\* nearest to 255 times its value, kept within 0..255: 255 for every value
\* from 1 on, 0 for every value up to 0, 128 for 0.5; no number of the output
\* is outside 0..255.
C25_ChannelsAreRoundedAndClamped ==
    /\ call.op = "to_rgb_vec" =>
          /\ Len(call.res.val) = Len(Channels(call.canvas))
          /\ \A k \in DOMAIN call.res.val :
                Encodes(call.res.val[k], Channels(call.canvas)[k])
    /\ (call.op = "to_ppm" /\ call.canvas.width > 0) =>
          LET numbers == NumbersFrom(Lines(call.res.val), 4)
          IN  /\ Len(numbers) = Len(Channels(call.canvas))
              /\ \A k \in DOMAIN numbers : Encodes(numbers[k], Channels(call.canvas)[k])

\* The canvas of the test of the pixel data was encoded: 1.5 as 255, 0.5 as
\* 128 and -0.5 as 0.
C25_Witness ==
    /\ call.op = "to_ppm"
    /\ call.canvas.width = 5
    /\ call.canvas.height = 1
    /\ call.canvas.pixels[0][0] = color(Halves(3), 0, 0)
    /\ call.canvas.pixels[0][1] = color(0, Halves(1), 0)
    /\ NumbersFrom(Lines(call.res.val), 4)
           = <<255, 0, 0, 0, 128, 0, 255, 0, 0, 0, 128, 0, 255, 0, 0>>

\* C26: the text of to_ppm ends with a newline and has no line of more than
\* 70 characters; the numbers of its lines after the three lines of the
\* header, each one whole on its line, are the channels of the pixels, every
\* one once, row by row; and the first channel of every row of the canvas is
\* the first number of a line.
C26_PpmLinesAreShortAndSplitBetweenValues ==
    call.op = "to_ppm" =>
        LET text == call.res.val
            lines == Lines(text)
            starts == {Len(NumbersFrom(SubSeq(lines, 1, j - 1), 4)) + 1
                          : j \in 4..Len(lines)}
        IN  /\ text # <<>>
            /\ text[Len(text)] = "\n"
            /\ \A j \in DOMAIN lines : Len(lines[j]) <= 70
            /\ NumbersFrom(lines, 4) = to_rgb_vec(call.canvas)
            /\ Len(lines) >= 3 + call.canvas.height
            /\ call.canvas.width > 0 =>
                  \A y \in 0..(call.canvas.height - 1) :
                      (3 * call.canvas.width * y) + 1 \in starts

\* The canvas of the test of the long lines was encoded: ten pixels of the
\* colour (1, 0.8, 0.6) in each of two rows, each row on a line of seventeen
\* numbers and a line of thirteen.
C26_Witness ==
    /\ call.op = "to_ppm"
    /\ call.canvas.width = 10
    /\ call.canvas.height = 2
    /\ \A y \in 0..1, x \in 0..9 : call.canvas.pixels[y][x] = color(One, Tenths(8), Tenths(6))
    /\ Len(Lines(call.res.val)) = 7
    /\ [j \in 1..4 |-> Len(Split(Lines(call.res.val)[j + 3], " "))] = <<17, 13, 17, 13>>
    /\ Len(Lines(call.res.val)[4]) = 67

\* C27: every pixel of a new canvas is black; a call of write_pixel within
\* the canvas gives the cell (x, y) the colour written and leaves every other
\* cell, the width and the height as they were; pixel_at(x, y) returns the
\* colour of the cell, which is so the colour written there last, or black;
\* and no other step changes the canvas.
C27_WritePixelChangesOneCell ==
    /\ \A y \in DOMAIN canvas.pixels : \A x \in DOMAIN canvas.pixels[y] :
          canvas.pixels[y][x] = color(0, 0, 0)
    /\ [][/\ (call'.op = "write_pixel" /\ ~call'.res.panic) =>
                /\ canvas'.width = canvas.width
                /\ canvas'.height = canvas.height
                /\ DOMAIN canvas'.pixels = DOMAIN canvas.pixels
                /\ \A y \in DOMAIN canvas.pixels :
                      /\ DOMAIN canvas'.pixels[y] = DOMAIN canvas.pixels[y]
                      /\ \A x \in DOMAIN canvas.pixels[y] :
                            canvas'.pixels[y][x] =
                                IF x = call'.x /\ y = call'.y THEN call'.color
                                ELSE canvas.pixels[y][x]
          /\ call'.op = "pixel_at" =>
                /\ call'.res = Returned(canvas.pixels[call'.y][call'.x])
                /\ canvas' = canvas
          /\ call'.op \notin {"write_pixel", "pixel_at"} => canvas' = canvas]_vars

\* A cell that was written red and then black is read as black, next to a
\* cell that was written red and is still red.
C27_Witness ==
    /\ canvas.width = 2
    /\ canvas.height = 2
    /\ canvas.pixels[1][0] = color(One, 0, 0)
    /\ canvas.pixels[0][0] = color(0, 0, 0)
    /\ canvas.pixels[0][1] = color(0, 0, 0)
    /\ canvas.pixels[1][1] = color(0, 0, 0)
    /\ call.op = "pixel_at"
    /\ call.x = 0
    /\ call.y = 1
    /\ call.res = Returned(color(One, 0, 0))

\* The transform of an object and the inverse it caches.
Cached(object_transform, cached_inverse) ==
    is_invertible(object_transform) => cached_inverse = inverse(object_transform)

\* C28: a new shape, a new camera and a new pattern have the identity as
\* transform and as cached inverse; whatever transforms were set, the cached
\* inverse of each is the inverse of its transform when that has one; and a
\* call of intersect, normal_at, ray_for_pixel or pattern_at_shape, or the
\* assignment of a material, leaves the transform and the inverse of the
\* shape, of the camera and, but for the assignment, of the pattern of the
\* shape as they were.
C28_CachedInverseFollowsTheTransform ==
    /\ shape.transform = IDENTITY /\ shape.inversed_transform = IDENTITY
    /\ camera.transform = IDENTITY /\ camera.inversed_transform = IDENTITY
    /\ shape.material.pattern.transform = IDENTITY
    /\ shape.material.pattern.invered_transform = IDENTITY
    /\ [](/\ Cached(shape.transform, shape.inversed_transform)
          /\ Cached(camera.transform, camera.inversed_transform)
          /\ Cached(shape.material.pattern.transform,
                    shape.material.pattern.invered_transform))
    /\ [][/\ (call' # call \/ shape'.material.pattern.pattern_type
                                  # shape.material.pattern.pattern_type) =>
                /\ shape'.transform = shape.transform
                /\ shape'.inversed_transform = shape.inversed_transform
                /\ camera'.transform = camera.transform
                /\ camera'.inversed_transform = camera.inversed_transform
          /\ call' # call =>
                /\ shape'.material.pattern.transform = shape.material.pattern.transform
                /\ shape'.material.pattern.invered_transform
                       = shape.material.pattern.invered_transform
          /\ (shape'.material.pattern.pattern_type
                  # shape.material.pattern.pattern_type) =>
                /\ shape'.material.pattern.transform = IDENTITY
                /\ shape'.material.pattern.invered_transform = IDENTITY
          /\ (call'.op = "pattern_at_shape" /\ is_invertible(call'.pattern.transform)) =>
                call'.pattern.invered_transform = inverse(call'.pattern.transform)]_vars

\* After transforms were set one after another, the shape, the camera and
\* the pattern each hold a transform that was not their first and its
\* inverse, and a ray_for_pixel was computed since.
C28_Witness ==
    /\ shape.transform = scaling(S(2), S(2), S(2))
    /\ shape.inversed_transform = scaling(Halves(1), Halves(1), Halves(1))
    /\ camera.transform = translation(0, One, S(4))
    /\ camera.inversed_transform = translation(0, 0 - One, S(0 - 4))
    /\ shape.material.pattern.pattern_type = stripe(WHITE, BLACK).pattern_type
    /\ shape.material.pattern.transform = translation(Halves(1), 0, 0)
    /\ shape.material.pattern.invered_transform = translation(Halves(0 - 1), 0, 0)
    /\ call.op = "ray_for_pixel"

\* The intersection that the order of the scene selects among those of the
\* objects of the world with a ray: the lowest t above 0, and of the objects
\* that have it the first of the list.  <<>> when no t is above 0.
FirstOfTheNearest(ray) ==
    LET all == extend_all(world, ray, Len(world.objects))
        positive == {all[k].t : k \in {j \in DOMAIN all : Gt(all[j].t, 0)}}
        lowest == CHOOSE t \in positive : \A u \in positive : t <= u
        first == CHOOSE i \in DOMAIN world.objects :
                     /\ \E k \in DOMAIN all : all[k].t = lowest /\ all[k].object = i
                     /\ \A k \in DOMAIN all : all[k].t = lowest => all[k].object >= i
    IN  IF positive = {} THEN <<>> ELSE <<Intersection(lowest, first)>>

\* C29: the intersections of equal t that World::intersect returns are in the
\* order of their objects in the list of the world; hit selects of the
\* intersections of the lowest t above 0 the one whose object is first in the
\* list, and color_at returns the shade of that one.
C29_TiesFollowTheOrderOfTheScene ==
    /\ (call.op = "intersect" /\ ~call.res.panic) =>
          /\ \A j, k \in DOMAIN call.res.val :
                (j < k /\ call.res.val[j].t = call.res.val[k].t) =>
                    call.res.val[j].object <= call.res.val[k].object
          /\ hit(call.res.val) = FirstOfTheNearest(call.ray)
    /\ (call.op = "color_at" /\ ~call.res.panic) =>
          call.res.val =
              IF FirstOfTheNearest(call.ray) = <<>> THEN BLACK
              ELSE shade_hit(world, prepare(world.objects, FirstOfTheNearest(call.ray)[1],
                                            call.ray))

\* A ray enters the first sphere where it touches the second: both have the
\* lowest t, 2, and the colour returned is the shade of the first, which is
\* not the shade of the second.
C29_Witness ==
    /\ call.op = "color_at"
    /\ ~call.res.panic
    /\ call.ray = Ray(point(0, 0, S(0 - 3)), vector(0, 0, One))
    /\ Len(world.objects) = 2
    /\ world.objects[1].transform = IDENTITY
    /\ world.objects[2].transform = translation(0, One, 0 - One)
    /\ Len(world.lights) >= 1
    /\ ShapeIntersect(1, world.objects[1], call.ray)[1].t = S(2)
    /\ ShapeIntersect(2, world.objects[2], call.ray)[1].t = S(2)
    /\ call.res.val = shade_hit(world, prepare(world.objects, Intersection(S(2), 1), call.ray))
    /\ call.res.val # shade_hit(world, prepare(world.objects, Intersection(S(2), 2), call.ray))

\* Two tuples that differ by no more than tol in any component.
TupleNear(a, b, tol) ==
    /\ AbsInt(a.x - b.x) <= tol
    /\ AbsInt(a.y - b.y) <= tol
    /\ AbsInt(a.z - b.z) <= tol
    /\ a.w = b.w

\* C30: the ray that Shape::intersect takes to the space of the shape has the
\* origin and the direction of the ray, each multiplied by the inverse, the
\* direction at the length the matrix gives it; so its position at every t
\* returned is the inverse times the position of the ray at t, which is a
\* point of the shape (of the unit sphere, or of the plane y = 0): t is a
\* parameter of the ray in the space of the world.  To the rounding of the
\* scalars, for a shape whose transform has an inverse.  The unit sphere
\* scaled by 2, met head on from a distance of 5, gives 3 and 7.
C30_RootsAreParametersOfTheWorldRay ==
    (call.op = "shape_intersect" /\ is_invertible(shape.transform)) =>
        LET local_ray == RayTransform(call.ray, shape.inversed_transform)
            local_point(t) == MatTuple(shape.inversed_transform, position(call.ray, t))
        IN  /\ local_ray.origin = MatTuple(shape.inversed_transform, call.ray.origin)
            /\ local_ray.direction = MatTuple(shape.inversed_transform, call.ray.direction)
            /\ \A k \in DOMAIN call.res.val :
                  IsFinite(call.res.val[k].t) =>
                      /\ TupleNear(position(local_ray, call.res.val[k].t),
                                   local_point(call.res.val[k].t), 2)
                      /\ shape.shape_type = "Sphere" =>
                            AbsInt(magnitude(TSub(local_point(call.res.val[k].t),
                                                  point(0, 0, 0))) - One) <= 2
                      /\ shape.shape_type = "Plane" =>
                            AbsInt(local_point(call.res.val[k].t).y) <= 2
            /\ (/\ shape.shape_type = "Sphere"
                /\ shape.transform = scaling(S(2), S(2), S(2))
                /\ call.ray = Ray(point(0, 0, S(0 - 5)), vector(0, 0, One))) =>
                  call.res.val = <<Intersection(S(3), Self), Intersection(S(7), Self)>>

\* The sphere scaled by 2 was met head on from a distance of 5, at 3 and 7:
\* the ray in the space of the sphere has a direction of length 0.5.
C30_Witness ==
    /\ call.op = "shape_intersect"
    /\ shape.shape_type = "Sphere"
    /\ shape.transform = scaling(S(2), S(2), S(2))
    /\ call.ray = Ray(point(0, 0, S(0 - 5)), vector(0, 0, One))
    /\ RayTransform(call.ray, shape.inversed_transform).direction = vector(0, 0, Halves(1))
    /\ Len(call.res.val) = 2
    /\ call.res.val[1].t = S(3)
    /\ call.res.val[2].t = S(7)

====
